---- MODULE Spec2Model ----
(***************************************************************************)
(* The bounded tool-calling research loop of the hospital assistant        *)
(* (agents/research_agent.py), its tool executor and the patient lookup    *)
(* (data/patient_data.py), as a state machine.                             *)
(*                                                                         *)
(* Strings that the code transforms character by character (patient names) *)
(* are sequences of one-character strings.  Texts that the code only       *)
(* measures and slices (answers, snippets, messages of collaborators) are  *)
(* records [id, len]: an identity and a length.                            *)
(***************************************************************************)
EXTENDS Integers, Sequences, FiniteSets, TLC

VARIABLES
    max_iterations,        \* ResearchAgent.max_iterations (constructor argument)
    query,                 \* the query of the current research() call
    pc,                    \* position of research(): see Positions
    iteration,             \* local iteration
    contents,              \* local contents (the transcript)
    tool_call_history,     \* local tool_call_history (the trace)
    response,              \* the model response being interpreted
    part_index,            \* position of the for loop over parts
    function_response_parts, \* local function_response_parts
    result,                \* the value research() returned
    model_calls,           \* number of generate_content calls made by the loop
    executed,              \* number of _execute_tool calls made by the loop
    summary_calls,         \* number of _generate_summary calls
    summary_response,      \* what the summarization call of _generate_summary did
    parts_left,            \* parts the model may still put into function-call turns
    tool_call,             \* the request of a direct _execute_tool call
    tool_result,           \* what that call returned or raised
    calls,                 \* the locals of each of two concurrent research() calls
    registry,              \* the agent's tools and the PATIENTS registry
    routing_request,       \* the arguments of a process_query call and what it meets
    routing_result,        \* what that call returned
    conversation_history,  \* api.py: the stored exchanges of each conversation
    max_conversation_turns, \* config.MAX_CONVERSATION_TURNS
    api_call,              \* the last request of the API and what it was given
    conversations,         \* ConversationManager.conversations
    max_history,           \* ConversationManager.max_history
    manager_call           \* the last ConversationManager call and its result

\* the conversation stores of the two services
store_vars == << conversation_history, max_conversation_turns, api_call,
                 conversations, max_history, manager_call >>

vars == << max_iterations, query, pc, iteration, contents, tool_call_history,
           response, part_index, function_response_parts, result, model_calls,
           executed, summary_calls, summary_response, parts_left, tool_call,
           tool_result, calls, registry, routing_request, routing_result, store_vars >>

loop_vars == << max_iterations, query, pc, iteration, contents,
                tool_call_history, response, part_index,
                function_response_parts, result, model_calls, executed,
                summary_calls, summary_response, parts_left, calls, registry,
                routing_request, routing_result, store_vars >>

----------------------------------------------------------------------------
(* Bounds of the model *)

MaxIterations == 2
MaxParts == 2
MaxRequestParts == 2
MaxCitations == 4
MaxStored == 3
MaxConfiguredTurns == 2
MaxHistory == 3
MaxTurns == 2

----------------------------------------------------------------------------
(* Python values *)

Min(a, b) == IF a < b THEN a ELSE b

\* a function either returns a value or raises an exception
Return(v) == [raised |-> FALSE, value |-> v]
Raise(e) == [raised |-> TRUE, value |-> [exception |-> e]]

\* a text known by identity (a tuple) and length; text[:n]
Text(id, len) == [id |-> id, len |-> len]
EmptyText == Text(<< >>, 0)
Slice(text, n) == [id |-> text.id, len |-> Min(text.len, n)]

\* an argument value: a str (its characters) or a value of another type
Str(chars) == [type |-> "str", chars |-> chars]
NotAStr == [type |-> "int", chars |-> << >>]

\* dict.get on an argument mapping, a set of <<key, value>> pairs with
\* distinct keys
DictGet(arguments, key, default) ==
    IF \E p \in arguments : p[1] = key
    THEN (CHOOSE p \in arguments : p[1] = key)[2]
    ELSE default

UpperLetters == <<"A", "B", "C", "D", "E", "F", "G", "H", "I", "J", "K", "L", "M", "N", "O", "P", "Q", "R", "S", "T", "U", "V", "W", "X", "Y", "Z">>
LowerLetters == <<"a", "b", "c", "d", "e", "f", "g", "h", "i", "j", "k", "l", "m", "n", "o", "p", "q", "r", "s", "t", "u", "v", "w", "x", "y", "z">>
Whitespace == {" ", "\t", "\n"}

RECURSIVE IndexOf(_, _, _)
IndexOf(seq, x, i) ==
    IF i > Len(seq) THEN 0
    ELSE IF seq[i] = x THEN i
    ELSE IndexOf(seq, x, i + 1)

\* str.lower(), one character
LowerChar(c) ==
    LET i == IndexOf(UpperLetters, c, 1)
    IN  IF i = 0 THEN c ELSE LowerLetters[i]

\* str.lower()
Lower(s) == [i \in 1..Len(s) |-> LowerChar(s[i])]

\* str.strip(): drops leading and trailing whitespace
RECURSIVE LStrip(_)
LStrip(s) ==
    IF s # << >> /\ Head(s) \in Whitespace THEN LStrip(Tail(s)) ELSE s

RECURSIVE RStrip(_)
RStrip(s) ==
    IF s # << >> /\ s[Len(s)] \in Whitespace
    THEN RStrip(SubSeq(s, 1, Len(s) - 1))
    ELSE s

Strip(s) == RStrip(LStrip(s))

----------------------------------------------------------------------------
(* data/patient_data.py *)

\* The registry, in insertion order.  Of a record the model keeps the
\* fields the lookup reads, and the length of its str() rendering.
PATIENTS ==
    << [key |-> <<"j", "u", "a", "n", " ", "d", "e", " ", "m", "a", "r", "c", "o">>,
        name |-> <<"J", "u", "a", "n", " ", "d", "e", " ", "M", "a", "r", "c", "o">>,
        age |-> 65, last_audit_at |-> "2024-06-15", repr_len |-> 840],
       [key |-> <<"m", "a", "r", "i", "a", " ", "s", "i", "l", "v", "a">>,
        name |-> <<"M", "a", "r", "i", "a", " ", "S", "i", "l", "v", "a">>,
        age |-> 45, last_audit_at |-> "2025-01-10", repr_len |-> 627],
       [key |-> <<"r", "o", "b", "e", "r", "t", " ", "j", "o", "h", "n", "s", "o", "n">>,
        name |-> <<"R", "o", "b", "e", "r", "t", " ", "J", "o", "h", "n", "s", "o", "n">>,
        age |-> 72, last_audit_at |-> "2024-12-20", repr_len |-> 733],
       [key |-> <<"e", "m", "i", "l", "y", " ", "z", "h", "a", "n", "g">>,
        name |-> <<"E", "m", "i", "l", "y", " ", "Z", "h", "a", "n", "g">>,
        age |-> 28, last_audit_at |-> "2025-01-22", repr_len |-> 712],
       [key |-> <<"d", "a", "v", "i", "d", " ", "m", "a", "r", "t", "i", "n", "e", "z">>,
        name |-> <<"D", "a", "v", "i", "d", " ", "M", "a", "r", "t", "i", "n", "e", "z">>,
        age |-> 58, last_audit_at |-> "2024-05-20", repr_len |-> 907],
       [key |-> <<"s", "a", "r", "a", "h", " ", "o", "'", "c", "o", "n", "n", "o", "r">>,
        name |-> <<"S", "a", "r", "a", "h", " ", "O", "'", "C", "o", "n", "n", "o", "r">>,
        age |-> 39, last_audit_at |-> "2025-01-15", repr_len |-> 812],
       [key |-> <<"t", "h", "o", "m", "a", "s", " ", "a", "n", "d", "e", "r", "s", "o", "n">>,
        name |-> <<"T", "h", "o", "m", "a", "s", " ", "A", "n", "d", "e", "r", "s", "o", "n">>,
        age |-> 81, last_audit_at |-> "2024-07-30", repr_len |-> 1113],
       [key |-> <<"l", "i", "s", "a", " ", "r", "o", "d", "r", "i", "g", "u", "e", "z">>,
        name |-> <<"L", "i", "s", "a", " ", "R", "o", "d", "r", "i", "g", "u", "e", "z">>,
        age |-> 52, last_audit_at |-> "2025-01-05", repr_len |-> 851] >>

PatientKeys == { PATIENTS[i].key : i \in 1..Len(PATIENTS) }

PatientRecord(key) ==
    LET p == CHOOSE q \in { PATIENTS[i] : i \in 1..Len(PATIENTS) } : q.key = key
    IN  [name |-> p.name, age |-> p.age, last_audit_at |-> p.last_audit_at,
         repr_len |-> p.repr_len]

\* ', '.join([p['name'] for p in PATIENTS.values()])
AvailablePatients == [i \in 1..Len(PATIENTS) |-> PATIENTS[i].name]

\* a lookup by the name as given, without lower() and strip()
get_patient_details_NoNormalize(patient_name) ==
    IF patient_name.type # "str"
    THEN Raise("AttributeError")
    ELSE IF patient_name.chars \in PatientKeys
         THEN Return(PatientRecord(patient_name.chars))
         ELSE Return([error |-> TRUE,
                      message |-> [prefix |-> "Patient not found in system. Available patients: ",
                                   patient_name |-> patient_name.chars,
                                   available_patients |-> AvailablePatients]])

\* a lookup that raises on a miss, as PATIENTS[normalized_name] would
get_patient_details_Raises(patient_name) ==
    IF patient_name.type # "str"
    THEN Raise("AttributeError")
    ELSE LET normalized_name == Strip(Lower(patient_name.chars))
         IN  IF normalized_name \in PatientKeys
             THEN Return(PatientRecord(normalized_name))
             ELSE Raise("KeyError")

\* get_patient_details(patient_name)
get_patient_details(patient_name) ==
    IF patient_name.type # "str"
    THEN Raise("AttributeError")            \* no .lower() on a non-str
    ELSE LET normalized_name == Strip(Lower(patient_name.chars))
         IN  IF normalized_name \in PatientKeys
             THEN Return(PatientRecord(normalized_name))
             ELSE Return([error |-> TRUE,
                          message |-> [prefix |-> "Patient not found in system. Available patients: ",
                                       patient_name |-> patient_name.chars,
                                       available_patients |-> AvailablePatients]])

----------------------------------------------------------------------------
(* agents/research_agent.py: the tool registry and the tool executor *)

\* the names of the function declarations of _build_tools, in order
FunctionDeclarations ==
    << "get_patient_details", "search_nursing_procedures",
       "search_pharmacy_info", "search_hr_policies" >>

ToolNames == { FunctionDeclarations[i] : i \in 1..Len(FunctionDeclarations) }

SourceLimit == 3
SnippetLimit == 300
ResultPreviewLimit == 200
SummaryFallbackLimit == 200

\* dict.get on a collaborator's result, a record with the set of its keys
Get(dict, key, default) == IF key \in dict.keys THEN dict[key] ELSE default

\* the list comprehension over result.get("grounding_metadata", [])[:3]
Sources(grounding_metadata) ==
    LET top == SubSeq(grounding_metadata, 1,
                      Min(Len(grounding_metadata), SourceLimit))
    IN  [i \in 1..Len(top) |->
            [title |-> Get(top[i], "title", EmptyText),
             snippet |-> Slice(Get(top[i], "snippet", EmptyText), SnippetLimit)]]

\* the body shared by _search_nursing_procedures, _search_pharmacy_info and
\* _search_hr_policies; reply is what the collaborator's search call did
SearchTool(failed_prefix, search_query, reply) ==
    IF reply.raised
    THEN Return([error |-> TRUE,
                 message |-> [prefix |-> "Search error: ",
                              exception |-> reply.value.exception]])
    ELSE LET res == reply.value
         IN  IF Get(res, "error", FALSE)
             THEN Return([error |-> TRUE,
                          message |-> [prefix |-> failed_prefix,
                                       detail |-> Get(res, "message", Text(<<"Unknown error">>, 13))]])
             ELSE LET grounding_metadata ==
                          Get(res, "grounding_metadata", [is_none |-> FALSE, items |-> << >>])
                  IN  IF grounding_metadata.is_none
                      THEN \* None[:3] raises TypeError, caught by the handler
                           Return([error |-> TRUE,
                                   message |-> [prefix |-> "Search error: ",
                                                exception |-> "TypeError"]])
                      ELSE Return([answer |-> Get(res, "answer", EmptyText),
                                   total_results |-> Get(res, "total_results", 0),
                                   sources |-> Sources(grounding_metadata.items),
                                   query |-> search_query])

search_nursing_procedures(search_query, reply) ==
    SearchTool("Nursing search failed: ", search_query, reply)

search_pharmacy_info(search_query, reply) ==
    SearchTool("Pharmacy search failed: ", search_query, reply)

\* a policy search that reports the number of returned sources as the count
search_hr_policies_CountsSources(search_query, reply) ==
    LET out == SearchTool("HR search failed: ", search_query, reply)
    IN  IF "sources" \in DOMAIN out.value
        THEN Return([out.value EXCEPT !.total_results = Len(out.value.sources)])
        ELSE out

search_hr_policies(search_query, reply) ==
    SearchTool("HR search failed: ", search_query, reply)

\* an else branch that raises
UnknownFunction_Raises(function_name) == Raise("ValueError")

\* the else branch of _execute_tool
UnknownFunction(function_name) ==
    Return([error |-> TRUE,
            message |-> [prefix |-> "Unknown function: ",
                         function_name |-> function_name]])

\* an executor that has lost the branch of a declared tool
Dispatch_NoPolicyHandler(function_name, arguments, reply) ==
    IF function_name = "get_patient_details"
    THEN get_patient_details(DictGet(arguments, "patient_name", Str(<< >>)))
    ELSE IF function_name = "search_nursing_procedures"
    THEN search_nursing_procedures(DictGet(arguments, "query", Str(<< >>)), reply)
    ELSE IF function_name = "search_pharmacy_info"
    THEN search_pharmacy_info(DictGet(arguments, "query", Str(<< >>)), reply)
    ELSE UnknownFunction(function_name)

\* the if/elif chain of _execute_tool, without its try/except
Dispatch(function_name, arguments, reply) ==
    IF function_name = "get_patient_details"
    THEN get_patient_details(DictGet(arguments, "patient_name", Str(<< >>)))
    ELSE IF function_name = "search_nursing_procedures"
    THEN search_nursing_procedures(DictGet(arguments, "query", Str(<< >>)), reply)
    ELSE IF function_name = "search_pharmacy_info"
    THEN search_pharmacy_info(DictGet(arguments, "query", Str(<< >>)), reply)
    ELSE IF function_name = "search_hr_policies"
    THEN search_hr_policies(DictGet(arguments, "query", Str(<< >>)), reply)
    ELSE UnknownFunction(function_name)

\* the chain without the try/except around it
execute_tool_NoTry(function_name, arguments, reply) ==
    Dispatch(function_name, arguments, reply)

\* _execute_tool(function_name, arguments): the chain inside try/except
execute_tool(function_name, arguments, reply) ==
    LET out == Dispatch(function_name, arguments, reply)
    IN  IF out.raised
        THEN Return([error |-> TRUE,
                     message |-> [prefix |-> "Tool execution error: ",
                                  exception |-> out.value.exception]])
        ELSE out

----------------------------------------------------------------------------
(* The inputs: what the model, the collaborators and callers may send *)

RequestNames == ToolNames \cup {"bogus_tool"}

JuanDeMarco == <<"J", "u", "a", "n", " ", "d", "e", " ", "M", "a", "r", "c", "o">>
JuanUpper == <<"J", "U", "A", "N", " ", "D", "E", " ", "M", "A", "R", "C", "O">>
JuanLower == <<"j", "u", "a", "n", " ", "d", "e", " ", "m", "a", "r", "c", "o">>
JuanPadded == <<" ", "J", "u", "a", "n", " ", "d", "e", " ", "M", "a", "r", "c", "o", " ">>
JuanOnly == <<"J", "u", "a", "n">>
MariaSilva == <<"M", "a", "r", "i", "a", " ", "S", "i", "l", "v", "a">>
NonexistentPerson == <<"N", "o", "n", "e", "x", "i", "s", "t", "e", "n", "t", " ", "P", "e", "r", "s", "o", "n">>

PatientNameInputs ==
    { JuanDeMarco, JuanUpper, JuanLower, JuanPadded, JuanOnly, MariaSilva,
      NonexistentPerson, << >> }

SearchQueryInputs == { <<"o", "x", "y", "c", "o", "d", "o", "n", "e", " ", "6", "5">> }

\* argument mappings: none, well-typed, ill-typed, and a stray key
ArgumentMaps ==
    { {} }
    \cup { {<<"patient_name", Str(n)>>} : n \in PatientNameInputs }
    \cup { {<<"query", Str(q)>>} : q \in SearchQueryInputs }
    \cup { {<<"patient_name", NotAStr>>}, {<<"query", NotAStr>>} }
    \cup { {<<"patient_name", Str(JuanDeMarco)>>, <<"query", Str(q)>>} : q \in SearchQueryInputs }

\* n citations in collaborator order, titled 1..n
Citations(n, keys, snippet_len) ==
    [i \in 1..n |-> [keys |-> keys,
                     title |-> Text(<<"title", i>>, 20),
                     snippet |-> Text(<<"snippet", i>>, snippet_len)]]

GroundingInputs ==
    { [is_none |-> TRUE, items |-> << >>] }
    \cup { [is_none |-> FALSE, items |-> Citations(n, keys, len)] :
              n \in 0..MaxCitations,
              keys \in { {}, {"title"}, {"title", "snippet"} },
              len \in { SnippetLimit, SnippetLimit + 1 } }

\* what a search collaborator (search_protocols, search_inventory,
\* search_policies) may do: raise, report an error, or return a result
SearchReplies ==
    { Raise("ConnectionError") }
    \cup { Return([keys |-> keys, error |-> TRUE,
                   message |-> Text(<<"backend unavailable">>, 19)]) :
              keys \in { {"error"}, {"error", "message"} } }
    \cup { Return([keys |-> keys, answer |-> answer, total_results |-> 5,
                   grounding_metadata |-> g]) :
              keys \in { {"answer", "grounding_metadata"},
                         {"answer", "grounding_metadata", "total_results"},
                         {"answer"} },
              answer \in { EmptyText, Text(<<"protocol answer">>, 420) },
              g \in GroundingInputs }


\* the requests the model makes inside the loop, and what the collaborator
\* of each may do there
LoopRequests ==
    { [name |-> "get_patient_details", args |-> {<<"patient_name", Str(JuanDeMarco)>>}],
      [name |-> "get_patient_details", args |-> {}],
      [name |-> "search_nursing_procedures", args |-> {<<"query", Str(<<"o", "x", "y", "c", "o", "d", "o", "n", "e", " ", "6", "5">>)>>}],
      [name |-> "search_pharmacy_info", args |-> {<<"query", Str(<<"o", "x", "y", "c", "o", "d", "o", "n", "e", " ", "6", "5">>)>>}],
      [name |-> "search_hr_policies", args |-> {<<"query", Str(<<"o", "x", "y", "c", "o", "d", "o", "n", "e", " ", "6", "5">>)>>}],
      [name |-> "bogus_tool", args |-> {}] }

NoReply == Return([keys |-> {}])

LoopReplies(function_name) ==
    IF function_name \in ToolNames \ {"get_patient_details"}
    THEN { Raise("ConnectionError"),
           Return([keys |-> {"answer", "grounding_metadata"},
                   answer |-> Text(<<"protocol answer">>, 420),
                   grounding_metadata |->
                       [is_none |-> FALSE,
                        items |-> Citations(1, {"title"}, 0)]]) }
    ELSE { NoReply }

\* _execute_tool on every request of the loop and every behaviour of its
\* collaborator
LoopOutcomes ==
    [c \in UNION { { <<r, y>> : y \in LoopReplies(r.name) } : r \in LoopRequests } |->
        execute_tool(c[1].name, c[1].args, c[2])]

\* the parts of a model turn
CallPart(request) == [kind |-> "call", name |-> request.name, args |-> request.args]
TextPart(text) == [kind |-> "text", text |-> text]

AnswerTexts == { Text(<<"answer one">>, 120), Text(<<"answer two">>, 450) }

CallParts == { CallPart(r) : r \in LoopRequests }
TextParts == { TextPart(t) : t \in AnswerTexts \cup {EmptyText} }

\* the text a model turn may carry next to its function calls
Commentary == TextPart(Text(<<"answer one">>, 120))

\* part.function_call is set
IsCall(part) == part.kind = "call"

\* part.text is set and not empty
HasText(part) == part.kind = "text" /\ part.text.len > 0

NumCalls(parts) == Cardinality({ i \in 1..Len(parts) : IsCall(parts[i]) })

\* a model turn: no part; text parts only, the first of them empty or
\* not; or function calls with or without commentary
TextTurns ==
    { <<first>> \o rest :
         first \in TextParts,
         rest \in UNION { [1..n -> {Commentary}] : n \in 0..(MaxParts - 1) } }
CallTurns ==
    { ps \in UNION { [1..n -> CallParts \cup {Commentary}] : n \in 1..MaxParts } :
         NumCalls(ps) >= 1 }
PartSeqs == { << >> } \cup TextTurns \cup CallTurns

\* what generate_content may do on one invocation: raise, answer without
\* a usable candidate, or answer with a candidate holding parts
ModelReplies(request_parts_left) ==
    { Raise("ServerError"), Return([candidates |-> 0, parts |-> << >>]) }
    \cup { Return([candidates |-> 1, parts |-> ps]) :
              ps \in { q \in PartSeqs :
                          NumCalls(q) = 0 \/ Len(q) <= request_parts_left } }

Queries == { "What do I need to do today with patient Juan de Marco?" }

\* what the summarization call may do
SummaryReplies ==
    { Raise("ServerError"),
      Return([candidates |-> 0, has_text |-> FALSE, text |-> EmptyText, padding |-> 0]),
      Return([candidates |-> 1, has_text |-> FALSE, text |-> EmptyText, padding |-> 0]),
      Return([candidates |-> 1, has_text |-> TRUE, text |-> Text(<<"summary">>, 90),
              padding |-> 2]) }

----------------------------------------------------------------------------
(* agents/research_agent.py: the summarizer and the responses of research() *)

\* text + "..."
WithEllipsis(text) == [id |-> Append(text.id, "..."), len |-> text.len + 3]

\* text.strip(), for a text with `padding` characters of surrounding whitespace
StripText(text, padding) == [id |-> text.id, len |-> text.len - padding]

\* a summarizer without the fallback
generate_summary_NoFallback(detailed_answer, reply) ==
    IF ~reply.raised /\ reply.value.candidates > 0 /\ reply.value.has_text
    THEN StripText(reply.value.text, reply.value.padding)
    ELSE EmptyText

\* _generate_summary(detailed_answer, query, temperature); reply is what the
\* summarization call did
generate_summary(detailed_answer, reply) ==
    IF reply.raised
    THEN WithEllipsis(Slice(detailed_answer, SummaryFallbackLimit))
    ELSE IF reply.value.candidates > 0
    THEN IF reply.value.has_text
         THEN StripText(reply.value.text, reply.value.padding)
         ELSE \* parts[0].text.strip() raises inside the try
              WithEllipsis(Slice(detailed_answer, SummaryFallbackLimit))
    ELSE WithEllipsis(Slice(detailed_answer, SummaryFallbackLimit))

IncompleteAnswer ==
    Text(<<"Research incomplete: Reached maximum number of iterations without finding a complete answer. Please try a more specific query.">>, 130)

\* a final response whose answer is the summary
DoneResponse_SummaryAsAnswer(final_answer, summary, iterations, history, q) ==
    [answer |-> summary,
     answer_detailed |-> final_answer,
     answer_summary |-> summary,
     agent |-> "research",
     iterations |-> iterations,
     tool_calls |-> Len(history),
     tool_call_history |-> history,
     query |-> q,
     error |-> FALSE]

\* a done response that counts the summarization call as an iteration
DoneResponse_CountsSummary(final_answer, summary, iterations, history, q) ==
    [answer |-> final_answer,
     answer_detailed |-> final_answer,
     answer_summary |-> summary,
     agent |-> "research",
     iterations |-> iterations + 1,
     tool_calls |-> Len(history),
     tool_call_history |-> history,
     query |-> q,
     error |-> FALSE]

\* the dict returned at lines 543-553
DoneResponse(final_answer, summary, iterations, history, q) ==
    [answer |-> final_answer,
     answer_detailed |-> final_answer,
     answer_summary |-> summary,
     agent |-> "research",
     iterations |-> iterations,
     tool_calls |-> Len(history),
     tool_call_history |-> history,
     query |-> q,
     error |-> FALSE]

\* an exhausted response without the trace
IncompleteResponse_NoTrace(iterations, history, q) ==
    [answer |-> IncompleteAnswer,
     agent |-> "research",
     iterations |-> iterations,
     query |-> q,
     error |-> FALSE,
     warning |-> "max_iterations_reached"]

\* an exhausted run that answers with the last iteration's index minus one
IncompleteResponse_StaleCount(iterations, history, q) ==
    [answer |-> IncompleteAnswer,
     agent |-> "research",
     iterations |-> IF iterations > 0 THEN iterations - 1 ELSE 0,
     tool_calls |-> Len(history),
     tool_call_history |-> history,
     query |-> q,
     error |-> FALSE,
     warning |-> "max_iterations_reached"]

\* the dict returned at lines 562-571
IncompleteResponse(iterations, history, q) ==
    [answer |-> IncompleteAnswer,
     agent |-> "research",
     iterations |-> iterations,
     tool_calls |-> Len(history),
     tool_call_history |-> history,
     query |-> q,
     error |-> FALSE,
     warning |-> "max_iterations_reached"]

\* the dict returned by the except clause, lines 575-580
FailureResponse(exception, q) ==
    [error |-> TRUE,
     message |-> exception,
     agent |-> "research",
     query |-> q]

\* no response yet
NoResult == [agent |-> "research"]

\* an except clause that lets the exception through
ExceptClause_Reraise(exception, q) == [pc |-> "raised", result |-> NoResult]

\* the except clause of research(): the exception becomes the response
ExceptClause(exception, q) ==
    [pc |-> "returned", result |-> FailureResponse(exception, q)]

\* str(tool_result)[:200] + "..." if longer, else str(tool_result): a
\* function of the result, kept as its argument and its limit
ResultSummary(tool_result_) ==
    [preview_of |-> tool_result_, limit |-> ResultPreviewLimit]

\* a trace entry stamped with the index of the iteration to come
ToolCallRecord_NextIteration(iteration_, function_name, function_args, tool_result_) ==
    [iteration |-> iteration_ + 1,
     function |-> function_name,
     arguments |-> function_args,
     result_summary |-> ResultSummary(tool_result_)]

\* the entry appended to tool_call_history
ToolCallRecord(iteration_, function_name, function_args, tool_result_) ==
    [iteration |-> iteration_,
     function |-> function_name,
     arguments |-> function_args,
     result_summary |-> ResultSummary(tool_result_)]

\* types.Part.from_function_response(name, response)
FunctionResponsePart(function_name, tool_result_) ==
    [name |-> function_name, response |-> tool_result_]

\* any(part.function_call for part in parts)
HasFunctionCalls(parts) == \E i \in 1..Len(parts) : IsCall(parts[i])

\* a loop that runs the first function call of a turn only
NextCall_FirstOnly(parts, i) ==
    IF i > 0 THEN 0
    ELSE LET all_calls == { j \in 1..Len(parts) : IsCall(parts[j]) }
         IN  IF all_calls = {} THEN 0
             ELSE CHOOSE j \in all_calls : \A k \in all_calls : j <= k

\* a loop that runs the function calls of a turn last to first
NextCall_LastFirst(parts, i) ==
    LET earlier == { j \in 1..Len(parts) : IsCall(parts[j]) /\ (i = 0 \/ j < i) }
    IN  IF earlier = {} THEN 0 ELSE CHOOSE j \in earlier : \A k \in earlier : j >= k

\* the next part after position i that is a function call, 0 if none
NextCall(parts, i) ==
    LET later == { j \in (i + 1)..Len(parts) : IsCall(parts[j]) }
    IN  IF later = {} THEN 0 ELSE CHOOSE j \in later : \A k \in later : j <= k

\* a loop that hands the model the results without the turn that asked
\* for them
AppendTurns_ResponsesOnly(contents_, parts, responses) ==
    Append(contents_,
           [kind |-> "function_responses", role |-> "user", parts |-> responses])

\* contents.append(response.candidates[0].content) and
\* contents.append(types.Content(role="user", parts=function_response_parts))
AppendTurns(contents_, parts, responses) ==
    contents_ \o
    << [kind |-> "model", parts |-> parts],
       [kind |-> "function_responses", role |-> "user", parts |-> responses] >>

----------------------------------------------------------------------------
(* agents/research_agent.py: research(), step by step.  A step ends where  *)
(* research() waits for a collaborator: the model, a tool, the summarizer. *)

\* "raised" is research() left by an exception
Positions ==
    { "idle", "awaiting_model", "executing_tools", "summarizing", "returned",
      "raised" }

NoResponse == Return([candidates |-> 0, parts |-> << >>])
NoToolCall == [name |-> "", args |-> {}, reply |-> NoReply]
NotCalled == Raise("not called")

\* what the calls share: self.tools and the module's PATIENTS
Registry == [tools |-> FunctionDeclarations, patients |-> PATIENTS]

\* the locals of a research() call that has not started; script is what the
\* model, the tools and the summarizer will do for it
NewCall(script) ==
    [script |-> script, pc |-> "idle", iteration |-> 0, contents |-> << >>,
     tool_call_history |-> << >>, response |-> NoResponse, part_index |-> 0,
     function_response_parts |-> << >>, result |-> NoResult]

NoScript == [query |-> "", model |-> << >>, tools_fail |-> FALSE, summary |-> NotCalled]

CallIds == {1, 2}

NoCalls == [i \in CallIds |-> NewCall(NoScript)]

\* None, as an argument value
NoneValue == [type |-> "NoneType", chars |-> << >>]

\* no process_query call
NoRequest ==
    [query |-> << >>, user_role |-> NoneValue, agent_override |-> NoneValue,
     classification |-> [category |-> "hr", method |-> "fallback"],
     agent_fails |-> FALSE]

\* the defaults of config.MAX_CONVERSATION_TURNS and of max_history
DefaultConversationTurns == 3
DefaultMaxHistory == 10

\* a dict without keys
EmptyDict == << >>

NoApiCall == [endpoint |-> "none"]
NoManagerCall == [op |-> "none"]

\* both services started, no request made
StoresIdle ==
    /\ conversation_history = EmptyDict
    /\ max_conversation_turns = DefaultConversationTurns
    /\ api_call = NoApiCall
    /\ conversations = EmptyDict
    /\ max_history = DefaultMaxHistory
    /\ manager_call = NoManagerCall

Init ==
    /\ max_iterations \in 0..MaxIterations
    /\ query = ""
    /\ pc = "idle"
    /\ iteration = 0
    /\ contents = << >>
    /\ tool_call_history = << >>
    /\ response = NoResponse
    /\ part_index = 0
    /\ function_response_parts = << >>
    /\ result = NoResult
    /\ model_calls = 0
    /\ executed = 0
    /\ summary_calls = 0
    /\ summary_response = NotCalled
    /\ parts_left = MaxRequestParts
    /\ tool_call = NoToolCall
    /\ tool_result = NotCalled
    /\ calls = NoCalls
    /\ registry = Registry
    /\ routing_request = NoRequest
    /\ routing_result = NotCalled
    /\ StoresIdle

\* a loop test that is off by one
LoopContinues_OffByOne(iteration_, max_iterations_) == iteration_ <= max_iterations_

\* while iteration < self.max_iterations
LoopContinues(iteration_, max_iterations_) == iteration_ < max_iterations_

\* a reading that takes the text of the first part as the answer before it
\* looks for function calls
Reading_TextFirst(reply) ==
    IF reply.raised \/ reply.value.candidates = 0 THEN "raise"
    ELSE IF reply.value.parts = << >> THEN "break"
    ELSE IF HasText(reply.value.parts[1]) THEN "answer"
    ELSE IF HasFunctionCalls(reply.value.parts) THEN "calls"
    ELSE "again"

\* how lines 484-558 read a model reply: "raise" (the call or the access to
\* candidates[0].content raised), "break" (no parts), "calls", "answer"
\* (no call, text in the first part) or "again" (none of these: the body
\* ends and the while test follows)
Reading(reply) ==
    IF reply.raised \/ reply.value.candidates = 0 THEN "raise"
    ELSE IF reply.value.parts = << >> THEN "break"
    ELSE IF HasFunctionCalls(reply.value.parts) THEN "calls"
    ELSE IF HasText(reply.value.parts[1]) THEN "answer"
    ELSE "again"

\* the exception that reaches the except clause of research()
ReplyException(reply) ==
    IF reply.raised THEN reply.value.exception ELSE "IndexError"

\* research(query) is called: lines 396-465
StartResearch ==
    /\ pc = "idle"
    /\ \E q \in Queries :
          /\ query' = q
          /\ contents' = << [kind |-> "query", text |-> q] >>
    /\ tool_call_history' = << >>
    /\ iteration' = 0
    /\ pc' = "awaiting_model"
    /\ UNCHANGED << max_iterations, response, part_index,
                    function_response_parts, result, model_calls, executed,
                    summary_calls, summary_response, parts_left, tool_call,
                    tool_result, calls, registry,
                    routing_request, routing_result, store_vars >>

\* one pass of the while loop up to its first wait: the test, the
\* increment, the model call and the reading of the reply (lines 468-490,
\* 533-537, 555-558)
InvokeModel ==
    /\ pc = "awaiting_model"
    /\ LoopContinues(iteration, max_iterations)
    /\ \E reply \in ModelReplies(parts_left) :
          LET reading == Reading(reply)
              parts == reply.value.parts
          IN  /\ iteration' = iteration + 1
              /\ model_calls' = model_calls + 1
              /\ response' = reply
              /\ parts_left' = IF reading = "calls" THEN parts_left - Len(parts) ELSE parts_left
              /\ part_index' = IF reading = "calls" THEN NextCall(parts, 0) ELSE 0
              /\ function_response_parts' = << >>
              /\ pc' = CASE reading = "calls" -> "executing_tools"
                         [] reading = "answer" -> "summarizing"
                         [] reading = "again" -> "awaiting_model"
                         [] reading = "raise" ->
                                   ExceptClause(ReplyException(reply), query).pc
                         [] OTHER -> "returned"
              /\ result' = CASE reading = "raise" ->
                                   ExceptClause(ReplyException(reply), query).result
                             [] reading = "break" ->
                                   IncompleteResponse(iteration + 1, tool_call_history, query)
                             [] OTHER -> result
    /\ UNCHANGED << max_iterations, query, contents, tool_call_history,
                    executed, summary_calls, summary_response, tool_call,
                    tool_result, calls, registry,
                    routing_request, routing_result, store_vars >>

\* one function call of the for loop over parts (lines 494-519) and, after
\* the last one, the two turns appended to the transcript (lines 521-531)
ExecuteTool ==
    /\ pc = "executing_tools"
    /\ \E reply \in LoopReplies(response.value.parts[part_index].name) :
          LET parts == response.value.parts
              part == parts[part_index]
              next == NextCall(parts, part_index)
              out == LoopOutcomes[<<[name |-> part.name, args |-> part.args], reply>>]
              caught == ExceptClause(out.value.exception, query)
              responses == Append(function_response_parts,
                                  FunctionResponsePart(part.name, out.value))
          IN  /\ executed' = executed + 1
              /\ result' = IF out.raised THEN caught.result ELSE result
              /\ pc' = IF out.raised THEN caught.pc
                       ELSE IF next = 0 THEN "awaiting_model"
                       ELSE "executing_tools"
              /\ tool_call_history' =
                     IF out.raised THEN tool_call_history
                     ELSE Append(tool_call_history,
                                 ToolCallRecord(iteration, part.name, part.args, out.value))
              /\ function_response_parts' =
                     IF out.raised THEN function_response_parts ELSE responses
              /\ part_index' = IF out.raised THEN part_index ELSE next
              /\ contents' =
                     IF ~out.raised /\ next = 0
                     THEN AppendTurns(contents, parts, responses)
                     ELSE contents
    /\ UNCHANGED << max_iterations, query, iteration, response, model_calls,
                    summary_calls, summary_response, parts_left, tool_call,
                    tool_result, calls, registry,
                    routing_request, routing_result, store_vars >>

\* the final answer: the summary and the response (lines 534-553)
Summarize ==
    /\ pc = "summarizing"
    /\ \E reply \in SummaryReplies :
          LET final_answer == response.value.parts[1].text
              summary == generate_summary(final_answer, reply)
          IN  /\ result' = DoneResponse(final_answer, summary, iteration,
                                        tool_call_history, query)
              /\ summary_response' = reply
    /\ summary_calls' = summary_calls + 1
    /\ pc' = "returned"
    /\ UNCHANGED << max_iterations, query, iteration, contents,
                    tool_call_history, response, part_index,
                    function_response_parts, model_calls, executed, parts_left,
                    tool_call, tool_result, calls, registry,
                    routing_request, routing_result, store_vars >>

\* an exhausted run that has its incomplete answer summarized
Exhausted_Summarizes ==
    /\ pc = "awaiting_model"
    /\ ~LoopContinues(iteration, max_iterations)
    /\ result' = IncompleteResponse(iteration, tool_call_history, query)
    /\ summary_calls' = summary_calls + 1
    /\ pc' = "returned"
    /\ UNCHANGED << max_iterations, query, iteration, contents,
                    tool_call_history, response, part_index,
                    function_response_parts, model_calls, executed,
                    summary_response, parts_left, tool_call,
                    tool_result, calls, registry,
                    routing_request, routing_result, store_vars >>

\* the while test fails: lines 560-571
Exhausted ==
    /\ pc = "awaiting_model"
    /\ ~LoopContinues(iteration, max_iterations)
    /\ result' = IncompleteResponse(iteration, tool_call_history, query)
    /\ pc' = "returned"
    /\ UNCHANGED << max_iterations, query, iteration, contents,
                    tool_call_history, response, part_index,
                    function_response_parts, model_calls, executed,
                    summary_calls, summary_response, parts_left, tool_call,
                    tool_result, calls, registry,
                    routing_request, routing_result, store_vars >>

Next == StartResearch \/ InvokeModel \/ ExecuteTool \/ Summarize \/ Exhausted

Spec == Init /\ [][Next]_vars

\* research() as scheduled: a thread that is not blocked takes its next step
FairSpec == Spec /\ WF_vars(Next)

----------------------------------------------------------------------------
(* _execute_tool called directly, outside any loop run *)

\* the agent is constructed and a caller holds a request and the behaviour
\* of the collaborator it will meet
ToolInit ==
    /\ max_iterations \in 0..MaxIterations
    /\ query = ""
    /\ pc = "idle"
    /\ iteration = 0
    /\ contents = << >>
    /\ tool_call_history = << >>
    /\ response = NoResponse
    /\ part_index = 0
    /\ function_response_parts = << >>
    /\ result = NoResult
    /\ model_calls = 0
    /\ executed = 0
    /\ summary_calls = 0
    /\ summary_response = NotCalled
    /\ parts_left = MaxRequestParts
    /\ tool_call \in [name : RequestNames, args : ArgumentMaps, reply : SearchReplies]
    /\ tool_result = NotCalled
    /\ calls = NoCalls
    /\ registry = Registry
    /\ routing_request = NoRequest
    /\ routing_result = NotCalled
    /\ StoresIdle

DirectToolCall ==
    /\ pc = "idle"
    /\ tool_result = NotCalled
    /\ tool_result' = execute_tool(tool_call.name, tool_call.args, tool_call.reply)
    /\ UNCHANGED << loop_vars, tool_call >>

ToolNext == DirectToolCall

ToolSpec == ToolInit /\ [][ToolNext]_vars

----------------------------------------------------------------------------
(* The patient lookup called directly *)

\* str.upper(), for the names a caller may send
UpperChar(c) ==
    LET i == IndexOf(LowerLetters, c, 1)
    IN  IF i = 0 THEN c ELSE UpperLetters[i]

Upper(s) == [i \in 1..Len(s) |-> UpperChar(s[i])]

Padded(s) == <<" ">> \o s \o <<" ">>

\* the first word of a name: a prefix of it
RECURSIVE FirstWord(_)
FirstWord(s) ==
    IF s = << >> \/ Head(s) = " " THEN << >> ELSE <<Head(s)>> \o FirstWord(Tail(s))

\* a name without its first and last character: a substring of it
Inner(s) == SubSeq(s, 2, Len(s) - 1)

DisplayNames == { PATIENTS[i].name : i \in 1..Len(PATIENTS) }

\* the names a caller may look up
LookupNames ==
    UNION { { n, Upper(n), Lower(n), Padded(n), <<"\t">> \o Upper(n) \o <<"\n">>,
              FirstWord(n), Inner(n), n \o <<"x">> } : n \in DisplayNames }
    \cup { NonexistentPerson, << >>, <<" ">> }

\* a caller holds the arguments of a lookup
LookupInit ==
    /\ max_iterations \in 0..MaxIterations
    /\ query = ""
    /\ pc = "idle"
    /\ iteration = 0
    /\ contents = << >>
    /\ tool_call_history = << >>
    /\ response = NoResponse
    /\ part_index = 0
    /\ function_response_parts = << >>
    /\ result = NoResult
    /\ model_calls = 0
    /\ executed = 0
    /\ summary_calls = 0
    /\ summary_response = NotCalled
    /\ parts_left = MaxRequestParts
    /\ tool_call \in { [name |-> "get_patient_details", args |-> a, reply |-> NoReply] :
                          a \in { {} } \cup { {<<"patient_name", Str(n)>>} : n \in LookupNames } }
    /\ tool_result = NotCalled
    /\ calls = NoCalls
    /\ registry = Registry
    /\ routing_request = NoRequest
    /\ routing_result = NotCalled
    /\ StoresIdle

\* get_patient_details(arguments.get("patient_name", "")), outside the try
DirectLookup ==
    /\ pc = "idle"
    /\ tool_result = NotCalled
    /\ tool_result' = get_patient_details(DictGet(tool_call.args, "patient_name", Str(<< >>)))
    /\ UNCHANGED << loop_vars, tool_call >>

LookupNext == DirectLookup

LookupSpec == LookupInit /\ [][LookupNext]_vars

----------------------------------------------------------------------------
(* agent-api/agents/help_agent.py: HelpAgent.is_help_query *)

\* the help and guidance phrases, English, Spanish, French, German
help_patterns ==
    { <<"h", "o", "w", " ", "t", "o", " ", "u", "s", "e">>,
      <<"h", "o", "w", " ", "d", "o", " ", "i", " ", "u", "s", "e">>,
      <<"h", "o", "w", " ", "c", "a", "n", " ", "i", " ", "u", "s", "e">>,
      <<"w", "h", "a", "t", " ", "c", "a", "n", " ", "i", " ", "a", "s", "k">>,
      <<"w", "h", "a", "t", " ", "q", "u", "e", "s", "t", "i", "o", "n", "s", " ", "c", "a", "n", " ", "i", " ", "a", "s", "k">>,
      <<"c", "a", "n", " ", "i", " ", "c", "h", "e", "c", "k">>,
      <<"c", "a", "n", " ", "i", " ", "f", "i", "n", "d">>,
      <<"c", "a", "n", " ", "i", " ", "g", "e", "t">>,
      <<"h", "o", "w", " ", "d", "o", "e", "s", " ", "t", "h", "i", "s", " ", "w", "o", "r", "k">>,
      <<"h", "o", "w", " ", "d", "o", "e", "s", " ", "t", "h", "i", "s", " ", "t", "o", "o", "l", " ", "w", "o", "r", "k">>,
      <<"w", "h", "a", "t", " ", "i", "s", " ", "t", "h", "i", "s">>,
      <<"w", "h", "a", "t", " ", "d", "o", "e", "s", " ", "t", "h", "i", "s", " ", "d", "o">>,
      <<"h", "e", "l", "p", " ", "m", "e">>,
      <<"g", "u", "i", "d", "e", " ", "m", "e">>,
      <<"s", "h", "o", "w", " ", "m", "e", " ", "h", "o", "w">>,
      <<"c", "ó", "m", "o", " ", "u", "s", "a", "r">>,
      <<"c", "ó", "m", "o", " ", "p", "u", "e", "d", "o", " ", "u", "s", "a", "r">>,
      <<"c", "ó", "m", "o", " ", "u", "t", "i", "l", "i", "z", "a", "r">>,
      <<"q", "u", "é", " ", "p", "r", "e", "g", "u", "n", "t", "a", "s", " ", "p", "u", "e", "d", "o">>,
      <<"q", "u", "é", " ", "p", "u", "e", "d", "o", " ", "p", "r", "e", "g", "u", "n", "t", "a", "r">>,
      <<"p", "u", "e", "d", "o", " ", "c", "o", "n", "s", "u", "l", "t", "a", "r">>,
      <<"p", "u", "e", "d", "o", " ", "v", "e", "r", "i", "f", "i", "c", "a", "r">>,
      <<"c", "ó", "m", "o", " ", "f", "u", "n", "c", "i", "o", "n", "a">>,
      <<"a", "y", "ú", "d", "a", "m", "e">>,
      <<"g", "u", "í", "a", "m", "e">>,
      <<"c", "o", "m", "m", "e", "n", "t", " ", "u", "t", "i", "l", "i", "s", "e", "r">>,
      <<"c", "o", "m", "m", "e", "n", "t", " ", "p", "u", "i", "s", "-", "j", "e", " ", "u", "t", "i", "l", "i", "s", "e", "r">>,
      <<"q", "u", "e", "l", "l", "e", "s", " ", "q", "u", "e", "s", "t", "i", "o", "n", "s", " ", "p", "u", "i", "s", "-", "j", "e">>,
      <<"q", "u", "e", " ", "p", "u", "i", "s", "-", "j", "e", " ", "d", "e", "m", "a", "n", "d", "e", "r">>,
      <<"p", "u", "i", "s", "-", "j", "e", " ", "v", "é", "r", "i", "f", "i", "e", "r">>,
      <<"p", "u", "i", "s", "-", "j", "e", " ", "c", "o", "n", "s", "u", "l", "t", "e", "r">>,
      <<"c", "o", "m", "m", "e", "n", "t", " ", "ç", "a", " ", "m", "a", "r", "c", "h", "e">>,
      <<"a", "i", "d", "e", "z", "-", "m", "o", "i">>,
      <<"g", "u", "i", "d", "e", "z", "-", "m", "o", "i">>,
      <<"w", "i", "e", " ", "b", "e", "n", "u", "t", "z", "e">>,
      <<"w", "i", "e", " ", "k", "a", "n", "n", " ", "i", "c", "h">>,
      <<"w", "i", "e", " ", "v", "e", "r", "w", "e", "n", "d", "e">>,
      <<"w", "e", "l", "c", "h", "e", " ", "f", "r", "a", "g", "e", "n", " ", "k", "a", "n", "n", " ", "i", "c", "h">>,
      <<"w", "a", "s", " ", "k", "a", "n", "n", " ", "i", "c", "h", " ", "f", "r", "a", "g", "e", "n">>,
      <<"k", "a", "n", "n", " ", "i", "c", "h", " ", "p", "r", "ü", "f", "e", "n">>,
      <<"k", "a", "n", "n", " ", "i", "c", "h", " ", "ü", "b", "e", "r", "p", "r", "ü", "f", "e", "n">>,
      <<"w", "i", "e", " ", "f", "u", "n", "k", "t", "i", "o", "n", "i", "e", "r", "t">>,
      <<"h", "i", "l", "f", " ", "m", "i", "r">>,
      <<"z", "e", "i", "g", " ", "m", "i", "r">> }

\* words that refer to the system itself
system_refs ==
    { <<"s", "y", "s", "t", "e", "m">>,
      <<"t", "o", "o", "l">>,
      <<"c", "h", "a", "t">>,
      <<"c", "h", "a", "t", "b", "o", "t">>,
      <<"a", "s", "s", "i", "s", "t", "a", "n", "t">>,
      <<"s", "i", "s", "t", "e", "m", "a">>,
      <<"h", "e", "r", "r", "a", "m", "i", "e", "n", "t", "a">>,
      <<"a", "s", "i", "s", "t", "e", "n", "t", "e">>,
      <<"s", "y", "s", "t", "è", "m", "e">>,
      <<"o", "u", "t", "i", "l">>,
      <<"w", "e", "r", "k", "z", "e", "u", "g">> }

\* question words, matched against whole tokens
question_words ==
    { <<"h", "o", "w">>,
      <<"w", "h", "a", "t">>,
      <<"c", "a", "n">>,
      <<"c", "ó", "m", "o">>,
      <<"q", "u", "é">>,
      <<"p", "u", "e", "d", "o">>,
      <<"c", "o", "m", "m", "e", "n", "t">>,
      <<"q", "u", "e">>,
      <<"p", "u", "i", "s", "-", "j", "e">>,
      <<"w", "i", "e">>,
      <<"w", "a", "s">>,
      <<"k", "a", "n", "n">> }

\* pattern in text, for str
Contains(text, pattern) ==
    \E i \in 0..(Len(text) - Len(pattern)) :
        SubSeq(text, i + 1, i + Len(pattern)) = pattern

\* the first token of a text that starts with a non-whitespace character
RECURSIVE FirstToken(_)
FirstToken(s) ==
    IF s = << >> \/ Head(s) \in Whitespace THEN << >>
    ELSE <<Head(s)>> \o FirstToken(Tail(s))

\* set(text.split())
RECURSIVE SplitWords(_)
SplitWords(s) ==
    IF s = << >> THEN {}
    ELSE IF Head(s) \in Whitespace THEN SplitWords(Tail(s))
    ELSE LET w == FirstToken(s)
         IN  {w} \cup SplitWords(SubSeq(s, Len(w) + 1, Len(s)))

\* HelpAgent.is_help_query(query)
is_help_query(query_) ==
    LET query_lower == Lower(query_)
        has_help_pattern == \E pattern \in help_patterns : Contains(query_lower, pattern)
        has_system_ref == \E ref \in system_refs : Contains(query_lower, ref)
        has_question == \E word \in question_words : word \in SplitWords(query_lower)
    IN  IF has_help_pattern THEN TRUE
        ELSE IF has_question /\ has_system_ref THEN TRUE
        ELSE FALSE

----------------------------------------------------------------------------
(* Two research() calls running on one agent *)

PatientRequest ==
    [name |-> "get_patient_details", args |-> {<<"patient_name", Str(JuanDeMarco)>>}]
BogusRequest == [name |-> "bogus_tool", args |-> {}]
NursingRequest ==
    [name |-> "search_nursing_procedures",
     args |-> {<<"query", Str(<<"o", "x", "y", "c", "o", "d", "o", "n", "e", " ", "6", "5">>)>>}]
PharmacyRequest ==
    [name |-> "search_pharmacy_info",
     args |-> {<<"query", Str(<<"o", "x", "y", "c", "o", "d", "o", "n", "e", " ", "6", "5">>)>>}]

CallsReply(requests) ==
    Return([candidates |-> 1,
            parts |-> [i \in 1..Len(requests) |-> CallPart(requests[i])]])
TextReply(text) == Return([candidates |-> 1, parts |-> <<TextPart(text)>>])

\* what the model, the tools and the summarizer do for one call: the
\* model's replies in order, whether the search collaborators fail, and the
\* reply of the summarization call
Scripts ==
    { [query |-> "What do I need to do today with patient Juan de Marco?",
       model |-> << CallsReply(<<PatientRequest>>),
                    TextReply(Text(<<"answer two">>, 450)) >>,
       tools_fail |-> FALSE, summary |-> Raise("ServerError")],
      [query |-> "Is oxycodone in stock?",
       model |-> << CallsReply(<<BogusRequest, NursingRequest>>),
                    CallsReply(<<PharmacyRequest>>),
                    TextReply(Text(<<"answer one">>, 120)) >>,
       tools_fail |-> TRUE,
       summary |-> Return([candidates |-> 1, has_text |-> TRUE,
                           text |-> Text(<<"summary">>, 90), padding |-> 2])],
      [query |-> "How many vacation days do I get?",
       model |-> << TextReply(Text(<<"answer one">>, 120)) >>,
       tools_fail |-> FALSE, summary |-> Raise("ServerError")],
      [query |-> "Is oxycodone in stock?",
       model |-> << CallsReply(<<PharmacyRequest>>), Raise("ServerError") >>,
       tools_fail |-> FALSE, summary |-> Raise("ServerError")],
      [query |-> "",
       model |-> << Return([candidates |-> 1, parts |-> << >>]) >>,
       tools_fail |-> FALSE, summary |-> Raise("ServerError")] }

\* the model's reply to the k-th invocation of a call
ScriptReply(script, k) ==
    IF k <= Len(script.model) THEN script.model[k] ELSE Raise("ServerError")

\* what the collaborator of a tool does for a call
ToolReply(script, function_name) ==
    IF LoopReplies(function_name) = {NoReply} THEN NoReply
    ELSE IF script.tools_fail THEN Raise("ConnectionError")
    ELSE CHOOSE r \in LoopReplies(function_name) : ~r.raised

\* research() entered: lines 396-465 on the call's locals
StartLocal(c) ==
    [c EXCEPT !.pc = "awaiting_model",
              !.contents = << [kind |-> "query", text |-> c.script.query] >>,
              !.tool_call_history = << >>,
              !.iteration = 0]

\* the while test failed: lines 560-571
ExhaustLocal(c) ==
    [c EXCEPT !.pc = "returned",
              !.result = IncompleteResponse(c.iteration, c.tool_call_history,
                                            c.script.query)]

\* one pass of the while loop up to its first wait, on the call's locals
InvokeLocal(c) ==
    LET reply == ScriptReply(c.script, c.iteration + 1)
        reading == Reading(reply)
    IN  [c EXCEPT
           !.iteration = c.iteration + 1,
           !.response = reply,
           !.part_index = IF reading = "calls" THEN NextCall(reply.value.parts, 0) ELSE 0,
           !.function_response_parts = << >>,
           !.pc = CASE reading = "calls" -> "executing_tools"
                    [] reading = "answer" -> "summarizing"
                    [] reading = "again" -> "awaiting_model"
                    [] reading = "raise" ->
                          ExceptClause(ReplyException(reply), c.script.query).pc
                    [] OTHER -> "returned",
           !.result = CASE reading = "raise" ->
                             ExceptClause(ReplyException(reply), c.script.query).result
                        [] reading = "break" ->
                             IncompleteResponse(c.iteration + 1, c.tool_call_history,
                                                c.script.query)
                        [] OTHER -> c.result]

\* one function call of the for loop over parts, on the call's locals
ExecuteLocal(c) ==
    LET parts == c.response.value.parts
        part == parts[c.part_index]
        next == NextCall(parts, c.part_index)
        out == LoopOutcomes[<<[name |-> part.name, args |-> part.args],
                              ToolReply(c.script, part.name)>>]
        responses == Append(c.function_response_parts,
                            FunctionResponsePart(part.name, out.value))
    IN  [c EXCEPT
           !.tool_call_history =
               Append(c.tool_call_history,
                      ToolCallRecord(c.iteration, part.name, part.args, out.value)),
           !.function_response_parts = responses,
           !.part_index = next,
           !.pc = IF next = 0 THEN "awaiting_model" ELSE "executing_tools",
           !.contents =
               IF next = 0
               THEN c.contents \o
                    << [kind |-> "model", parts |-> parts],
                       [kind |-> "function_responses", role |-> "user",
                        parts |-> responses] >>
               ELSE c.contents]

\* the final answer, on the call's locals
SummarizeLocal(c) ==
    LET final_answer == c.response.value.parts[1].text
        summary == generate_summary(final_answer, c.script.summary)
    IN  [c EXCEPT !.pc = "returned",
                  !.result = DoneResponse(final_answer, summary, c.iteration,
                                          c.tool_call_history, c.script.query)]

\* the next step of a call
CallStep(c, max_iterations_) ==
    CASE c.pc = "idle" -> StartLocal(c)
      [] c.pc = "awaiting_model" ->
            IF LoopContinues(c.iteration, max_iterations_)
            THEN InvokeLocal(c) ELSE ExhaustLocal(c)
      [] c.pc = "executing_tools" -> ExecuteLocal(c)
      [] c.pc = "summarizing" -> SummarizeLocal(c)
      [] OTHER -> c

\* a trace kept in the agent instead of in the call
UpdateCall_SharedTrace(cs, i, c) ==
    [j \in DOMAIN cs |->
        IF j = i THEN c
        ELSE [cs[j] EXCEPT !.tool_call_history = c.tool_call_history]]

\* a step of call i writes the locals of call i: contents, iteration and
\* tool_call_history are created per call (lines 460-465)
UpdateCall(cs, i, c) == [cs EXCEPT ![i] = c]

ConcInit ==
    /\ max_iterations \in 0..MaxIterations
    /\ query = ""
    /\ pc = "idle"
    /\ iteration = 0
    /\ contents = << >>
    /\ tool_call_history = << >>
    /\ response = NoResponse
    /\ part_index = 0
    /\ function_response_parts = << >>
    /\ result = NoResult
    /\ model_calls = 0
    /\ executed = 0
    /\ summary_calls = 0
    /\ summary_response = NotCalled
    /\ parts_left = MaxRequestParts
    /\ tool_call = NoToolCall
    /\ tool_result = NotCalled
    /\ calls \in [CallIds -> { NewCall(script) : script \in Scripts }]
    /\ registry = Registry
    /\ routing_request = NoRequest
    /\ routing_result = NotCalled
    /\ StoresIdle

single_vars == << max_iterations, query, pc, iteration, contents,
                  tool_call_history, response, part_index,
                  function_response_parts, result, model_calls, executed,
                  summary_calls, summary_response, parts_left, tool_call,
                  tool_result >>

Advance(i) ==
    /\ calls' = UpdateCall(calls, i, CallStep(calls[i], max_iterations))
    /\ UNCHANGED << single_vars, registry, routing_request, routing_result, store_vars >>

ConcStart(i) == calls[i].pc = "idle" /\ Advance(i)

ConcInvokeModel(i) ==
    /\ calls[i].pc = "awaiting_model"
    /\ LoopContinues(calls[i].iteration, max_iterations)
    /\ Advance(i)

ConcExhausted(i) ==
    /\ calls[i].pc = "awaiting_model"
    /\ ~LoopContinues(calls[i].iteration, max_iterations)
    /\ Advance(i)

ConcExecuteTool(i) == calls[i].pc = "executing_tools" /\ Advance(i)

ConcSummarize(i) == calls[i].pc = "summarizing" /\ Advance(i)

ConcNext ==
    \E i \in CallIds :
        \/ ConcStart(i)
        \/ ConcInvokeModel(i)
        \/ ConcExhausted(i)
        \/ ConcExecuteTool(i)
        \/ ConcSummarize(i)

ConcSpec == ConcInit /\ [][ConcNext]_vars

----------------------------------------------------------------------------
(* agent-api/orchestrator.py: HospitalOrchestrator.process_query *)

\* the keys of self.agents
AgentCategories == {"nursing", "hr", "pharmacy", "help"}

\* the name a str spells, for the keys of self.agents and of role_mapping
Spelled(chars) ==
    CASE chars = <<"n", "u", "r", "s", "i", "n", "g">> -> "nursing"
      [] chars = <<"h", "r">> -> "hr"
      [] chars = <<"p", "h", "a", "r", "m", "a", "c", "y">> -> "pharmacy"
      [] chars = <<"h", "e", "l", "p">> -> "help"
      [] chars = <<"n", "u", "r", "s", "e">> -> "nurse"
      [] chars = <<"e", "m", "p", "l", "o", "y", "e", "e">> -> "employee"
      [] chars = <<"p", "h", "a", "r", "m", "a", "c", "i", "s", "t">> -> "pharmacist"
      [] OTHER -> "other"

\* `not value` for an Optional[str]
Falsy(value) == value.type = "NoneType" \/ value.chars = << >>

\* QueryClassifier.get_routing_suggestion(query, user_role); classification
\* is what self.classify(query) returns
get_routing_suggestion(user_role, classification) ==
    LET role == Spelled(Lower(user_role.chars))
    IN  IF ~Falsy(user_role) /\ role \in {"nurse", "employee", "pharmacist"}
        THEN [category |-> CASE role = "nurse" -> "nursing"
                             [] role = "employee" -> "hr"
                             [] OTHER -> "pharmacy",
              confidence |-> "high", method |-> "user_role"]
        ELSE classification

\* what the agent that handles the query returns, with the orchestrator's
\* routing_info added
AgentResult(agent_category, agent_fails, routing_info) ==
    IF agent_fails
    THEN [error |-> TRUE, agent |-> agent_category, routing_info |-> routing_info]
    ELSE [answer |-> "answer", agent |-> agent_category, routing_info |-> routing_info]

\* a router that classifies first and detects help only for what is left
process_query_ClassifierFirst(query_, user_role, agent_override, classification, agent_fails) ==
    LET suggestion == get_routing_suggestion(user_role, classification)
        routing_info == [category |-> suggestion.category,
                         confidence |-> suggestion.confidence,
                         method |-> suggestion.method, priority |-> 2]
    IN  [response |-> AgentResult(suggestion.category, agent_fails, routing_info),
         handled_by |-> suggestion.category,
         classifier_calls |-> 1]

\* process_query(query, user_role, agent_override): the response, the agent
\* that handled the query and the number of classifier calls made
process_query(query_, user_role, agent_override, classification, agent_fails) ==
    LET is_help == Falsy(agent_override) /\ is_help_query(query_)
        classified == ~is_help /\ Falsy(agent_override)
        suggestion == get_routing_suggestion(user_role, classification)
        routing_info ==
            IF is_help
            THEN [method |-> "help_detection", category |-> "help",
                  confidence |-> "high", priority |-> 1]
            ELSE IF ~Falsy(agent_override)
            THEN [method |-> "override",
                  category |-> Spelled(Lower(agent_override.chars)),
                  confidence |-> "explicit", priority |-> 2]
            ELSE [category |-> suggestion.category,
                  confidence |-> suggestion.confidence,
                  method |-> suggestion.method, priority |-> 2]
        agent_category == routing_info.category
    IN  IF agent_category \notin AgentCategories
        THEN [response |-> [error |-> TRUE,
                            message |-> [prefix |-> "Invalid agent category: ",
                                         category |-> agent_category]],
              handled_by |-> "none",
              classifier_calls |-> IF classified THEN 1 ELSE 0]
        ELSE [response |-> AgentResult(agent_category, agent_fails, routing_info),
              handled_by |-> agent_category,
              classifier_calls |-> IF classified THEN 1 ELSE 0]

\* the queries a caller may send
RouteQueries ==
    { <<"H", "o", "w", " ", "d", "o", " ", "I", " ", "u", "s", "e", " ", "t", "h", "i", "s", " ", "s", "y", "s", "t", "e", "m", "?">>,
      <<"W", "h", "a", "t", " ", "c", "a", "n", " ", "I", " ", "a", "s", "k", "?">>,
      <<"C", "a", "n", " ", "I", " ", "c", "h", "e", "c", "k", " ", "i", "n", "v", "e", "n", "t", "o", "r", "y", " ", "h", "e", "r", "e", "?">>,
      <<"W", "i", "e", " ", "f", "u", "n", "k", "t", "i", "o", "n", "i", "e", "r", "t", " ", "d", "i", "e", "s", "e", "s", " ", "T", "o", "o", "l", "?">>,
      <<"H", "E", "L", "P", " ", "M", "E">>,
      <<"W", "h", "a", "t", " ", "t", "o", "o", "l", " ", "d", "o", " ", "I", " ", "n", "e", "e", "d", " ", "f", "o", "r", " ", "w", "o", "u", "n", "d", " ", "c", "a", "r", "e", "?">>,
      <<"H", "o", "w", " ", "d", "o", " ", "I", " ", "i", "n", "s", "e", "r", "t", " ", "a", "n", " ", "I", "V", " ", "l", "i", "n", "e", "?">>,
      <<"H", "o", "w", " ", "m", "a", "n", "y", " ", "v", "a", "c", "a", "t", "i", "o", "n", " ", "d", "a", "y", "s", " ", "d", "o", " ", "I", " ", "h", "a", "v", "e", "?">>,
      <<"I", "s", " ", "i", "b", "u", "p", "r", "o", "f", "e", "n", " ", "i", "n", " ", "s", "t", "o", "c", "k", "?">>,
      <<"W", "h", "a", "t", " ", "i", "s", " ", "t", "h", "e", " ", "w", "o", "u", "n", "d", " ", "c", "a", "r", "e", " ", "p", "r", "o", "t", "o", "c", "o", "l", "?">>,
      <<"¿", "C", "ó", "m", "o", " ", "c", "u", "r", "a", "r", " ", "u", "n", "a", " ", "h", "e", "r", "i", "d", "a", "?">> }

RoleInputs ==
    { NoneValue, Str(<<"N", "u", "r", "s", "e">>), Str(<<"e", "m", "p", "l", "o", "y", "e", "e">>),
      Str(<<"d", "o", "c", "t", "o", "r">>) }

OverrideInputs ==
    { NoneValue, Str(<< >>), Str(<<"n", "u", "r", "s", "i", "n", "g">>), Str(<<"H", "R">>),
      Str(<<"p", "h", "a", "r", "m", "a", "c", "y">>), Str(<<"h", "e", "l", "p">>),
      Str(<<"r", "a", "d", "i", "o", "l", "o", "g", "y">>) }

\* what QueryClassifier.classify may return
Classifications ==
    { [category |-> c, confidence |-> "high", method |-> m] :
         c \in {"nursing", "hr", "pharmacy"}, m \in {"keywords", "gemini"} }
    \cup { [category |-> "hr", confidence |-> "low", method |-> m] :
              m \in {"keywords", "gemini_error", "fallback"} }

RouteInit ==
    /\ max_iterations = MaxIterations
    /\ query = ""
    /\ pc = "idle"
    /\ iteration = 0
    /\ contents = << >>
    /\ tool_call_history = << >>
    /\ response = NoResponse
    /\ part_index = 0
    /\ function_response_parts = << >>
    /\ result = NoResult
    /\ model_calls = 0
    /\ executed = 0
    /\ summary_calls = 0
    /\ summary_response = NotCalled
    /\ parts_left = MaxRequestParts
    /\ tool_call = NoToolCall
    /\ tool_result = NotCalled
    /\ calls = NoCalls
    /\ registry = Registry
    /\ routing_request \in [query : RouteQueries, user_role : RoleInputs,
                            agent_override : OverrideInputs,
                            classification : Classifications,
                            agent_fails : BOOLEAN]
    /\ routing_result = NotCalled
    /\ StoresIdle

ProcessQuery ==
    /\ routing_result = NotCalled
    /\ routing_result' = Return(process_query(routing_request.query,
                                              routing_request.user_role,
                                              routing_request.agent_override,
                                              routing_request.classification,
                                              routing_request.agent_fails))
    /\ UNCHANGED << single_vars, calls, registry, routing_request, store_vars >>

RouteNext == ProcessQuery

RouteSpec == RouteInit /\ [][RouteNext]_vars

----------------------------------------------------------------------------
(* Python lists and dicts of the conversation stores *)

\* seq[-n:] for an int n; -0 is 0, so seq[-0:] is the whole list
LastItems(seq, n) ==
    LET start == IF n > 0
                 THEN (IF Len(seq) - n > 0 THEN Len(seq) - n ELSE 0)
                 ELSE (IF -n < Len(seq) THEN -n ELSE Len(seq))
    IN  SubSeq(seq, start + 1, Len(seq))

\* key in dict, dict[key] = value, del dict[key]
HasKey(dict, key) == key \in DOMAIN dict
SetKey(dict, key, value) ==
    [k \in DOMAIN dict \cup {key} |-> IF k = key THEN value ELSE dict[k]]
DelKey(dict, key) == [k \in DOMAIN dict \ {key} |-> dict[k]]

\* dict.get(key, [])
GetList(dict, key) == IF HasKey(dict, key) THEN dict[key] ELSE << >>

\* the number of items in the lists of a dict
RECURSIVE CountItems(_, _)
CountItems(dict, keys) ==
    IF keys = {} THEN 0
    ELSE LET k == CHOOSE x \in keys : TRUE
         IN  Len(dict[k]) + CountItems(dict, keys \ {k})

TotalItems(dict) == CountItems(dict, DOMAIN dict)

----------------------------------------------------------------------------
(* agent-api/api.py: POST /query, POST /research and the conversations *)

\* the history POST /query hands to the orchestrator: None, or two turns
\* for each of the last max_turns stored exchanges (lines 259-272)
FormattedHistory(store, conversation_id, max_turns) ==
    IF HasKey(store, conversation_id) /\ Len(store[conversation_id]) > 0
    THEN LET recent_history == LastItems(store[conversation_id], max_turns)
         IN  [is_none |-> FALSE,
              turns |-> [i \in 1..(2 * Len(recent_history)) |->
                            IF i % 2 = 1
                            THEN [role |-> "user",
                                  content |-> recent_history[(i + 1) \div 2].query]
                            ELSE [role |-> "assistant",
                                  content |-> recent_history[i \div 2].answer]]]
    ELSE [is_none |-> TRUE, turns |-> << >>]

\* the entry stored for an exchange (lines 294-299)
StoredEntry(query_, orchestrator_result) ==
    [timestamp |-> orchestrator_result.timestamp,
     query |-> query_,
     answer |-> orchestrator_result.answer,
     agent |-> orchestrator_result.agent]

\* a store that keeps the latest exchange of a conversation only
StoreExchange_Overwrites(store, conversation_id, entry) ==
    SetKey(store, conversation_id, << entry >>)

\* lines 291-299: create the conversation if needed, append the entry
StoreExchange(store, conversation_id, entry) ==
    LET created == IF HasKey(store, conversation_id) THEN store
                   ELSE SetKey(store, conversation_id, << >>)
    IN  SetKey(created, conversation_id, Append(created[conversation_id], entry))

\* the conversation ids clients send, and what uuid4 may produce
ClientIds == {"a", "b"}
UuidPool == {"u1"}
ConversationIds == ClientIds \cup UuidPool

\* request.conversation_id or str(uuid.uuid4())
EffectiveIds(request_id, store) ==
    IF request_id = "" THEN UuidPool \ DOMAIN store ELSE {request_id}

ApiQueries == {"How do I insert an IV line?", "Is ibuprofen in stock?"}

\* what orchestrator.process_query returns to the endpoint
OrchestratorResults(query_) ==
    { [error |-> TRUE, message |-> "Error processing query"],
      [error |-> FALSE, timestamp |-> "2025-01-01T00:00:00",
       answer |-> IF query_ = "Is ibuprofen in stock?"
                  THEN "Ibuprofen is in stock." ELSE "Use aseptic technique.",
       agent |-> IF query_ = "Is ibuprofen in stock?" THEN "pharmacy" ELSE "nursing"] }

ApiInit ==
    /\ max_iterations = MaxIterations
    /\ query = ""
    /\ pc = "idle"
    /\ iteration = 0
    /\ contents = << >>
    /\ tool_call_history = << >>
    /\ response = NoResponse
    /\ part_index = 0
    /\ function_response_parts = << >>
    /\ result = NoResult
    /\ model_calls = 0
    /\ executed = 0
    /\ summary_calls = 0
    /\ summary_response = NotCalled
    /\ parts_left = MaxRequestParts
    /\ tool_call = NoToolCall
    /\ tool_result = NotCalled
    /\ calls = NoCalls
    /\ registry = Registry
    /\ routing_request = NoRequest
    /\ routing_result = NotCalled
    /\ conversation_history = EmptyDict
    /\ max_conversation_turns \in 0..MaxConfiguredTurns
    /\ api_call = NoApiCall
    /\ conversations = EmptyDict
    /\ max_history = DefaultMaxHistory
    /\ manager_call = NoManagerCall

manager_vars == << conversations, max_history, manager_call >>

\* POST /query (lines 250-321); request_id "" is a request without
\* conversation_id
PostQuery ==
    \E request_id \in ClientIds \cup {""}, query_ \in ApiQueries :
      \E conversation_id \in EffectiveIds(request_id, conversation_history),
         orchestrator_result \in OrchestratorResults(query_) :
        /\ orchestrator_result.error \/ TotalItems(conversation_history) < MaxStored
        /\ api_call' =
              [endpoint |-> "query",
               conversation_id |-> conversation_id,
               query |-> query_,
               history |-> FormattedHistory(conversation_history, conversation_id,
                                            max_conversation_turns),
               status |-> IF orchestrator_result.error THEN 500 ELSE 200]
        /\ conversation_history' =
              IF orchestrator_result.error THEN conversation_history
              ELSE StoreExchange(conversation_history, conversation_id,
                                 StoredEntry(query_, orchestrator_result))
        /\ UNCHANGED << single_vars, calls, registry, routing_request,
                        routing_result, max_conversation_turns, manager_vars >>

\* POST /research (lines 376-409): the research agent answers or fails
PostResearch ==
    \E failed \in BOOLEAN :
        /\ api_call' = [endpoint |-> "research",
                        status |-> IF failed THEN 500 ELSE 200]
        /\ UNCHANGED << single_vars, calls, registry, routing_request,
                        routing_result, conversation_history,
                        max_conversation_turns, manager_vars >>

\* GET /conversation/{conversation_id} (lines 449-461)
GetConversation ==
    \E conversation_id \in ConversationIds :
        /\ api_call' =
              IF HasKey(conversation_history, conversation_id)
              THEN [endpoint |-> "get", conversation_id |-> conversation_id,
                    status |-> 200,
                    messages |-> conversation_history[conversation_id],
                    message_count |-> Len(conversation_history[conversation_id])]
              ELSE [endpoint |-> "get", conversation_id |-> conversation_id,
                    status |-> 404]
        /\ UNCHANGED << single_vars, calls, registry, routing_request,
                        routing_result, conversation_history,
                        max_conversation_turns, manager_vars >>

\* DELETE /conversation/{conversation_id} (lines 464-473)
DeleteConversation ==
    \E conversation_id \in ConversationIds :
        /\ api_call' = [endpoint |-> "delete", conversation_id |-> conversation_id,
                        status |-> IF HasKey(conversation_history, conversation_id)
                                   THEN 200 ELSE 404]
        /\ conversation_history' =
              IF HasKey(conversation_history, conversation_id)
              THEN DelKey(conversation_history, conversation_id)
              ELSE conversation_history
        /\ UNCHANGED << single_vars, calls, registry, routing_request,
                        routing_result, max_conversation_turns, manager_vars >>

ApiNext == PostQuery \/ PostResearch \/ GetConversation \/ DeleteConversation

ApiSpec == ApiInit /\ [][ApiNext]_vars

----------------------------------------------------------------------------
(* src/llm/response_generator.py: ConversationManager *)

\* the dict add_message builds: metadata is a key only when it is given
Message(role, content, metadata) ==
    IF metadata # "" THEN [role |-> role, content |-> content, metadata |-> metadata]
    ELSE [role |-> role, content |-> content]

\* add_message(conversation_id, role, content, metadata) on the store
add_message(store, max_history_, conversation_id, message) ==
    LET created == IF HasKey(store, conversation_id) THEN store
                   ELSE SetKey(store, conversation_id, << >>)
        appended == Append(created[conversation_id], message)
    IN  SetKey(created, conversation_id,
               IF Len(appended) > max_history_
               THEN LastItems(appended, max_history_)
               ELSE appended)

\* clear_conversation(conversation_id) on the store
clear_conversation(store, conversation_id) ==
    IF HasKey(store, conversation_id) THEN DelKey(store, conversation_id) ELSE store

\* get_context_for_query(conversation_id, max_turns)
get_context_for_query(store, conversation_id, max_turns) ==
    LET history == GetList(store, conversation_id)
    IN  IF history # << >> THEN LastItems(history, max_turns * 2) ELSE << >>

\* the conversations and the messages of the chat endpoint: the user's
\* query, the assistant's answer with its sources
ManagerIds == {"a", "b"}
ManagerMessages ==
    { Message("user", "Is ibuprofen in stock?", ""),
      Message("assistant", "Ibuprofen is in stock.", ""),
      Message("assistant", "Ibuprofen is in stock.", "sources") }

ManagerInit ==
    /\ max_iterations = MaxIterations
    /\ query = ""
    /\ pc = "idle"
    /\ iteration = 0
    /\ contents = << >>
    /\ tool_call_history = << >>
    /\ response = NoResponse
    /\ part_index = 0
    /\ function_response_parts = << >>
    /\ result = NoResult
    /\ model_calls = 0
    /\ executed = 0
    /\ summary_calls = 0
    /\ summary_response = NotCalled
    /\ parts_left = MaxRequestParts
    /\ tool_call = NoToolCall
    /\ tool_result = NotCalled
    /\ calls = NoCalls
    /\ registry = Registry
    /\ routing_request = NoRequest
    /\ routing_result = NotCalled
    /\ conversation_history = EmptyDict
    /\ max_conversation_turns = DefaultConversationTurns
    /\ api_call = NoApiCall
    /\ conversations = EmptyDict
    /\ max_history \in 1..MaxHistory
    /\ manager_call = NoManagerCall

api_vars == << conversation_history, max_conversation_turns, api_call >>

AddMessage ==
    \E conversation_id \in ManagerIds, message \in ManagerMessages :
        /\ conversations' = add_message(conversations, max_history,
                                        conversation_id, message)
        /\ manager_call' = [op |-> "add_message",
                            conversation_id |-> conversation_id,
                            message |-> message]
        /\ UNCHANGED << single_vars, calls, registry, routing_request,
                        routing_result, api_vars, max_history >>

ClearConversation ==
    \E conversation_id \in ManagerIds :
        /\ conversations' = clear_conversation(conversations, conversation_id)
        /\ manager_call' = [op |-> "clear_conversation",
                            conversation_id |-> conversation_id]
        /\ UNCHANGED << single_vars, calls, registry, routing_request,
                        routing_result, api_vars, max_history >>

GetContextForQuery ==
    \E conversation_id \in ManagerIds, max_turns \in 0..MaxTurns :
        /\ manager_call' =
              [op |-> "get_context_for_query",
               conversation_id |-> conversation_id,
               max_turns |-> max_turns,
               returned |-> get_context_for_query(conversations,
                                                  conversation_id, max_turns)]
        /\ UNCHANGED << single_vars, calls, registry, routing_request,
                        routing_result, api_vars, max_history, conversations >>

ManagerNext == AddMessage \/ ClearConversation \/ GetContextForQuery

ManagerSpec == ManagerInit /\ [][ManagerNext]_vars

----------------------------------------------------------------------------
(* Properties of the research loop *)

Returned == pc = "returned"

Has(r, field) == field \in DOMAIN r

\* every model turn of the run so far requested at least one tool call and
\* had its calls answered: only such a turn extends the transcript, by two
AllTurnsRequestedTools == Len(contents) = 1 + 2 * model_calls

IsFailureResult(r) == Has(r, "error") /\ r.error = TRUE /\ Has(r, "message")

\* C1: for every max_iterations >= 0 and whatever the model and the tools
\* do, research() makes at most max_iterations model invocations and, once
\* called, always returns.
C1_BoundedTermination ==
    /\ [](model_calls <= max_iterations)
    /\ ((pc # "idle") ~> Returned)

C1_Witness ==
    /\ Returned
    /\ max_iterations = MaxIterations
    /\ model_calls = max_iterations
    /\ Len(tool_call_history) >= 2

\* C2: when every model turn requests a tool call, existing or not, the run
\* makes exactly max_iterations model invocations and returns the exhausted
\* response: iterations = max_iterations, the warning, no error, the fixed
\* "Research incomplete" answer and the whole trace.
C2_ExhaustedAfterMaxIterations ==
    (Returned /\ AllTurnsRequestedTools) =>
        /\ model_calls = max_iterations
        /\ Has(result, "iterations") /\ result.iterations = max_iterations
        /\ Has(result, "warning") /\ result.warning = "max_iterations_reached"
        /\ result.error = FALSE
        /\ result.answer = IncompleteAnswer
        /\ result.answer \notin AnswerTexts
        /\ result.tool_call_history = tool_call_history
        /\ Len(tool_call_history) >= max_iterations

C2_Witness ==
    /\ Returned /\ AllTurnsRequestedTools
    /\ max_iterations = 2
    /\ Len(tool_call_history) = 2
    /\ tool_call_history[1].function = "bogus_tool"
    /\ tool_call_history[2].function = "search_pharmacy_info"

\* C3: in every response of a completed run (done or exhausted) tool_calls
\* is the length of tool_call_history, every entry's iteration index lies
\* between 1 and the returned iterations, and the indices never decrease
\* along the trace.
C3_TraceIterationConsistency ==
    (Returned /\ result.error = FALSE) =>
        LET h == result.tool_call_history
        IN  /\ result.tool_calls = Len(h)
            /\ \A i \in 1..Len(h) :
                  1 <= h[i].iteration /\ h[i].iteration <= result.iterations
            /\ \A i, j \in 1..Len(h) :
                  i < j => h[i].iteration <= h[j].iteration

C3_Witness ==
    /\ Returned /\ result.error = FALSE
    /\ Len(result.tool_call_history) = 2
    /\ result.tool_call_history[1].iteration = 1
    /\ result.tool_call_history[2].iteration = 2
    /\ result.iterations = 2
    /\ result.tool_calls = 2

\* the function calls of a sequence of parts, in order
RECURSIVE CallsOf(_)
CallsOf(parts) ==
    IF parts = << >> THEN << >>
    ELSE IF IsCall(Head(parts))
         THEN << [function |-> Head(parts).name, arguments |-> Head(parts).args] >>
              \o CallsOf(Tail(parts))
         ELSE CallsOf(Tail(parts))

\* the function calls of the model turns of a transcript, in order
RECURSIVE RequestedIn(_)
RequestedIn(transcript) ==
    IF transcript = << >> THEN << >>
    ELSE IF Head(transcript).kind = "model"
         THEN CallsOf(Head(transcript).parts) \o RequestedIn(Tail(transcript))
         ELSE RequestedIn(Tail(transcript))

Traced == [i \in 1..Len(tool_call_history) |->
              [function |-> tool_call_history[i].function,
               arguments |-> tool_call_history[i].arguments]]

\* C4: a model turn with N >= 1 tool-call requests has all N executed, each
\* once and in order, whether they succeed or fail, and gets exactly N trace
\* entries with its iteration index; in every state the trace is as long as
\* the number of tool executions.
C4_AllRequestedCallsExecuted ==
    /\ Len(tool_call_history) = executed
    /\ pc # "executing_tools" => Traced = RequestedIn(contents)
    /\ pc = "executing_tools" =>
          Traced = RequestedIn(contents)
                   \o CallsOf(SubSeq(response.value.parts, 1, part_index - 1))
    /\ (pc \in {"awaiting_model", "returned"} /\ Reading(response) = "calls") =>
          Cardinality({ i \in 1..Len(tool_call_history) :
                           tool_call_history[i].iteration = iteration })
             = NumCalls(response.value.parts)

C4_Witness ==
    /\ pc = "awaiting_model"
    /\ NumCalls(response.value.parts) = 2
    /\ Len(tool_call_history) = 2
    /\ IsFailureResult(tool_call_history[1].result_summary.preview_of)
    /\ ~Has(tool_call_history[2].result_summary.preview_of, "error")
    /\ tool_call_history[2].iteration = 1

\* C5 (as claimed): a model response without parts, or one that cannot be
\* interpreted, aborts the run, and research() returns error = TRUE with a
\* message.
C5_EmptyResponseAborts ==
    (model_calls > 0 /\ Reading(response) \in {"raise", "break", "again"}) =>
        /\ Returned
        /\ IsFailureResult(result)

DoneShape(r) ==
    /\ Has(r, "error") /\ r.error = FALSE
    /\ ~Has(r, "warning")
    /\ Has(r, "answer")

IncompleteShape(r) ==
    /\ Has(r, "error") /\ r.error = FALSE
    /\ Has(r, "warning")
    /\ Has(r, "tool_call_history") /\ r.tool_call_history = tool_call_history

FailureShape(r) ==
    /\ IsFailureResult(r)
    /\ Has(r, "agent") /\ r.agent = "research"
    /\ ~Has(r, "answer") /\ ~Has(r, "warning")

\* C6: research() never raises; whatever the model and the tools do,
\* an exception of a model invocation included, it returns exactly one of:
\* a done answer (no error, no warning), an incomplete result (no error, a
\* warning, the partial trace), the failure shape (error, message, agent).
C6_AlwaysStructuredResponse ==
    /\ pc # "raised"
    /\ pc \notin {"returned", "raised"} => ENABLED Next
    /\ Returned =>
          /\ DoneShape(result) \/ IncompleteShape(result) \/ FailureShape(result)
          /\ ~(DoneShape(result) /\ IncompleteShape(result))
          /\ ~(DoneShape(result) /\ FailureShape(result))
          /\ ~(IncompleteShape(result) /\ FailureShape(result))

C6_Witness ==
    /\ Returned
    /\ FailureShape(result)
    /\ response.raised
    /\ model_calls = 2
    /\ Len(tool_call_history) >= 1

ResponseFields ==
    { "answer", "answer_detailed", "answer_summary", "agent", "iterations",
      "tool_calls", "tool_call_history", "error" }

\* C8 (as claimed): every response that is not a failure, the incomplete
\* one included, has all of answer, answer_detailed, answer_summary, agent,
\* iterations, tool_calls, tool_call_history and error.
C8_AllFieldsInEveryResponse ==
    (Returned /\ ~IsFailureResult(result)) =>
        /\ ResponseFields \subseteq DOMAIN result
        /\ result.agent = "research"

\* C8 (amended): every response that is not a failure has answer, agent =
\* "research", iterations, tool_calls, tool_call_history and error; the done
\* response has answer_detailed and answer_summary too, the incomplete one
\* (with the warning) has neither.
C8_FieldsByOutcome ==
    (Returned /\ ~IsFailureResult(result)) =>
        /\ (ResponseFields \ {"answer_detailed", "answer_summary"}) \subseteq DOMAIN result
        /\ result.agent = "research"
        /\ ~Has(result, "warning") =>
              {"answer_detailed", "answer_summary"} \subseteq DOMAIN result
        /\ Has(result, "warning") =>
              {"answer_detailed", "answer_summary"} \cap DOMAIN result = {}

C8_Witness ==
    /\ Returned
    /\ Has(result, "warning")
    /\ ~Has(result, "answer_summary")
    /\ iteration = 2
    /\ Len(tool_call_history) >= 1

UnknownFunctionResult(function_name) ==
    [error |-> TRUE,
     message |-> [prefix |-> "Unknown function: ", function_name |-> function_name]]

\* C9: a tool call whose name is not in the registry gets the failure
\* result "Unknown function: <name>"; in the loop it is recorded in the
\* trace and answered in the transcript, and the loop goes on to the next
\* iteration instead of aborting.
C9_UnknownToolIsNotFatal ==
    /\ \A i \in 1..Len(tool_call_history) :
          tool_call_history[i].function \notin ToolNames =>
             tool_call_history[i].result_summary.preview_of
                = UnknownFunctionResult(tool_call_history[i].function)
    /\ \A k \in 1..Len(contents) :
          contents[k].kind = "function_responses" =>
             /\ Len(contents[k].parts) = NumCalls(contents[k - 1].parts)
             /\ \A j \in 1..Len(contents[k].parts) :
                   /\ contents[k].parts[j].name = CallsOf(contents[k - 1].parts)[j].function
                   /\ contents[k].parts[j].name \notin ToolNames =>
                         contents[k].parts[j].response
                            = UnknownFunctionResult(contents[k].parts[j].name)
    /\ (model_calls > 0 /\ Reading(response) = "calls" /\ pc # "executing_tools") =>
          \/ pc = "awaiting_model"
          \/ Returned /\ IncompleteShape(result) /\ iteration = max_iterations

C9_Witness ==
    /\ pc = "executing_tools"
    /\ model_calls = 2
    /\ Len(tool_call_history) = 1
    /\ tool_call_history[1].function = "bogus_tool"
    /\ Len(contents) = 3
    /\ contents[3].parts[1].response = UnknownFunctionResult("bogus_tool")

----------------------------------------------------------------------------
(* Properties of the tool executor, called directly *)

Called == ~(tool_result.raised /\ tool_result.value.exception = "not called")

IsSearchTool(function_name) ==
    function_name \in { "search_nursing_procedures", "search_pharmacy_info",
                        "search_hr_policies" }

PatientNameArgument == DictGet(tool_call.args, "patient_name", Str(<< >>))

\* the calls that meet a failing collaborator, an unknown patient, an
\* ill-typed name or an unknown tool
MustFail ==
    \/ IsSearchTool(tool_call.name) /\ tool_call.reply.raised
    \/ /\ IsSearchTool(tool_call.name)
       /\ ~tool_call.reply.raised
       /\ "error" \in tool_call.reply.value.keys
       /\ tool_call.reply.value.error
    \/ /\ tool_call.name = "get_patient_details"
       /\ \/ PatientNameArgument = NotAStr
          \/ PatientNameArgument.chars \in { NonexistentPerson, JuanOnly, << >> }
    \/ tool_call.name = "bogus_tool"

\* C10: for every tool name, argument mapping (arguments missing or
\* ill-typed included) and collaborator behaviour, _execute_tool returns a
\* result and does not raise; a collaborator that raises, a collaborator
\* result flagged as error and a patient that is not found each become a
\* failure result with the error flag and a message.
C10_ExecutorNeverRaises ==
    Called =>
        /\ ~tool_result.raised
        /\ MustFail => IsFailureResult(tool_result.value)

C10_Witness ==
    /\ Called
    /\ tool_call.name = "get_patient_details"
    /\ PatientNameArgument = NotAStr
    /\ IsFailureResult(tool_result.value)
    /\ tool_result.value.message.prefix = "Tool execution error: "

\* a collaborator result without matches and without answer text
EmptyResult(reply) ==
    /\ ~reply.raised
    /\ ~Get(reply.value, "error", FALSE)
    /\ Get(reply.value, "answer", EmptyText) = EmptyText
    /\ \/ "grounding_metadata" \notin reply.value.keys
       \/ /\ ~reply.value.grounding_metadata.is_none
          /\ reply.value.grounding_metadata.items = << >>

\* C11 (as claimed): when the search collaborator returns an empty result,
\* no matches and no answer text, the search tool returns a failure result
\* (error flag and a message), not a success result.
C11_EmptyResultIsFailure ==
    (Called /\ IsSearchTool(tool_call.name) /\ EmptyResult(tool_call.reply)) =>
        IsFailureResult(tool_result.value)

\* C12: when the summarization call raises or yields no candidate,
\* research() still returns the done response: no error, answer and
\* answer_detailed equal to the model's final text, and answer_summary equal
\* to the first 200 characters of answer_detailed followed by "...".
C12_SummaryFallback ==
    /\ pc = "summarizing" => ENABLED Summarize
    /\ (Returned /\ summary_calls > 0
          /\ (summary_response.raised \/ summary_response.value.candidates = 0)) =>
          /\ DoneShape(result)
          /\ result.answer = response.value.parts[1].text
          /\ Has(result, "answer_detailed")
          /\ result.answer_detailed = result.answer
          /\ Has(result, "answer_summary")
          /\ result.answer_summary.id
                = Append(Slice(result.answer_detailed, 200).id, "...")
          /\ result.answer_summary.len
                = (IF result.answer_detailed.len < 200
                   THEN result.answer_detailed.len ELSE 200) + 3

C12_Witness ==
    /\ Returned
    /\ summary_calls = 1
    /\ summary_response.raised
    /\ summary_response.value.exception = "ServerError"
    /\ result.answer_detailed.len = 450
    /\ result.answer_summary.len = 203
    /\ result.error = FALSE

----------------------------------------------------------------------------
(* Properties of the patient lookup, called directly *)

\* the record of the registry's i-th patient
RegistryRecord(i) ==
    [name |-> PATIENTS[i].name, age |-> PATIENTS[i].age,
     last_audit_at |-> PATIENTS[i].last_audit_at, repr_len |-> PATIENTS[i].repr_len]

\* C13: the lookup is an exact match that ignores letter case and
\* surrounding whitespace: for every registered patient the name as
\* registered, in upper case, in lower case and padded returns the same
\* record, that of the patient; a prefix or a substring of the name returns
\* no record.
C13_LookupIgnoresCaseAndPadding ==
    Called =>
        \A i \in 1..Len(PATIENTS) :
            LET n == PATIENTS[i].name
                given == PatientNameArgument.chars
            IN  /\ given \in { n, Upper(n), Lower(n), Padded(n),
                               <<"\t">> \o Upper(n) \o <<"\n">> } =>
                      /\ ~tool_result.raised
                      /\ tool_result.value = RegistryRecord(i)
                /\ given \in { FirstWord(n), Inner(n), n \o <<"x">> } =>
                      /\ ~tool_result.raised
                      /\ tool_result.value # RegistryRecord(i)
                      /\ IsFailureResult(tool_result.value)

C13_Witness ==
    /\ Called
    /\ PatientNameArgument.chars = <<"\t">> \o Upper(PATIENTS[6].name) \o <<"\n">>
    /\ ~tool_result.raised
    /\ tool_result.value = RegistryRecord(6)

\* the name matches a registered patient
Registered(given) ==
    \E i \in 1..Len(PATIENTS) : Lower(Strip(given)) = Lower(PATIENTS[i].name)

\* C14: for every name that matches no registered patient, the empty
\* string of a missing patient_name argument included, the lookup returns a
\* failure result whose message lists the display names of all registered
\* patients, and does not raise.
C14_MissListsAllPatients ==
    (Called /\ ~Registered(PatientNameArgument.chars)) =>
        /\ ~tool_result.raised
        /\ IsFailureResult(tool_result.value)
        /\ DOMAIN tool_result.value.message
              = {"prefix", "patient_name", "available_patients"}
        /\ tool_result.value.message.patient_name = PatientNameArgument.chars
        /\ Len(tool_result.value.message.available_patients) = Len(PATIENTS)
        /\ \A i \in 1..Len(PATIENTS) :
              tool_result.value.message.available_patients[i] = PATIENTS[i].name

C14_Witness ==
    /\ Called
    /\ tool_call.args = {}
    /\ IsFailureResult(tool_result.value)
    /\ tool_result.value.message.patient_name = << >>
    /\ Len(tool_result.value.message.available_patients) = 8

----------------------------------------------------------------------------
(* Properties of the search tools, called directly *)

\* the collaborator returned a result that it does not flag as an error
SuccessfulReply(reply) ==
    /\ ~reply.raised
    /\ ~Get(reply.value, "error", FALSE)

\* the citations under a collaborator's result, in its order; none when
\* grounding_metadata is absent or None
UnderlyingCitations(reply) ==
    IF "grounding_metadata" \in reply.value.keys
    THEN reply.value.grounding_metadata.items
    ELSE << >>

\* C15 (as claimed): for each search tool and every successful collaborator
\* result with n citations, the returned sources list has length min(n, 3),
\* holds the first citations in collaborator order, and every snippet has
\* at most 300 characters.
C15_CitationCap ==
    (Called /\ IsSearchTool(tool_call.name) /\ SuccessfulReply(tool_call.reply)) =>
        LET cited == UnderlyingCitations(tool_call.reply)
            n == Len(cited)
        IN  /\ Has(tool_result.value, "sources")
            /\ Len(tool_result.value.sources) = (IF n < 3 THEN n ELSE 3)
            /\ \A j \in 1..Len(tool_result.value.sources) :
                  /\ tool_result.value.sources[j].title
                        = Get(cited[j], "title", EmptyText)
                  /\ tool_result.value.sources[j].snippet.len <= 300

----------------------------------------------------------------------------
(* Properties of two concurrent research() calls *)

\* a call run to its end with no other call on the agent
RECURSIVE RunAlone(_, _)
RunAlone(c, max_iterations_) ==
    IF c.pc \in {"returned", "raised"} THEN c
    ELSE RunAlone(CallStep(c, max_iterations_), max_iterations_)

IsPrefix(s, t) == Len(s) <= Len(t) /\ s = SubSeq(t, 1, Len(s))

\* C16: two research() calls interleaved at any model-call or tool-call
\* boundary do not affect each other: each has its own transcript, iteration
\* counter and trace, each returns what it returns when run alone
\* (iterations, tool_calls, tool_call_history, the whole response), and the
\* tool registry and the patient registry stay as they were.
C16_ConcurrentCallsIndependent ==
    /\ registry = Registry
    /\ \A i \in CallIds :
          LET alone == RunAlone(NewCall(calls[i].script), max_iterations)
          IN  /\ calls[i].pc # "raised"
              /\ calls[i].iteration <= alone.iteration
              /\ IsPrefix(calls[i].tool_call_history, alone.tool_call_history)
              /\ IsPrefix(calls[i].contents, alone.contents)
              /\ calls[i].pc = "returned" =>
                    /\ calls[i].result = alone.result
                    /\ calls[i].iteration = alone.iteration
                    /\ calls[i].tool_call_history = alone.tool_call_history
                    /\ calls[i].contents = alone.contents

C16_Witness ==
    /\ calls[1].pc = "returned"
    /\ calls[1].result.error = FALSE
    /\ calls[1].result.tool_calls = 1
    /\ calls[1].result.tool_call_history[1].function = "get_patient_details"
    /\ calls[2].pc = "executing_tools"
    /\ calls[2].part_index = 2
    /\ Len(calls[2].tool_call_history) = 1
    /\ calls[2].tool_call_history[1].function = "bogus_tool"

----------------------------------------------------------------------------
(* Further properties of the research loop *)

\* C17 (as claimed): a model response with neither a tool call nor usable
\* answer text is not retried, so the model is never invoked twice with an
\* unchanged transcript: every invocation after the first follows the two
\* turns appended for the tool calls of the one before.
C17_NoRetryOnUnchangedTranscript ==
    2 * model_calls <= Len(contents) + 1

\* C18 (as claimed): for the query about patient Juan de Marco, in every
\* run the patient lookup is called before any search tool: no trace holds
\* a search entry that precedes the first get_patient_details entry.
C18_PatientLookupBeforeSearch ==
    query = "What do I need to do today with patient Juan de Marco?" =>
        \A i \in 1..Len(tool_call_history) :
            IsSearchTool(tool_call_history[i].function) =>
                \E j \in 1..(i - 1) :
                    tool_call_history[j].function = "get_patient_details"

----------------------------------------------------------------------------
(* Properties of the policy search, called directly *)

\* the collaborator found matching content and answered from it
HasMatchingContent(reply) ==
    /\ SuccessfulReply(reply)
    /\ Get(reply.value, "answer", EmptyText).len > 0
    /\ Len(UnderlyingCitations(reply)) >= 1

\* the collaborator reports failure
ReportsFailure(reply) == ~reply.raised /\ Get(reply.value, "error", FALSE)

\* C19: the policy search called directly, outside any loop run, returns a
\* result without error whose answer is the collaborator's non-empty answer
\* and whose total_results is the collaborator's count when the collection
\* has matching content, and an error result with a message when the
\* collaborator reports failure; nothing of the loop's state enters.
C19_PolicySearchDirect ==
    (Called /\ tool_call.name = "search_hr_policies") =>
        /\ pc = "idle" /\ model_calls = 0 /\ tool_call_history = << >>
        /\ ~tool_result.raised
        /\ HasMatchingContent(tool_call.reply) =>
              /\ ~Has(tool_result.value, "error")
              /\ Has(tool_result.value, "answer")
              /\ tool_result.value.answer = tool_call.reply.value.answer
              /\ tool_result.value.answer.len > 0
              /\ tool_result.value.total_results
                    = Get(tool_call.reply.value, "total_results", 0)
              /\ tool_result.value.query
                    = DictGet(tool_call.args, "query", Str(<< >>))
        /\ ReportsFailure(tool_call.reply) =>
              /\ IsFailureResult(tool_result.value)
              /\ tool_result.value.message.prefix = "HR search failed: "
              /\ tool_result.value.message.detail
                    = Get(tool_call.reply.value, "message", Text(<<"Unknown error">>, 13))

C19_Witness ==
    /\ Called
    /\ tool_call.name = "search_hr_policies"
    /\ HasMatchingContent(tool_call.reply)
    /\ "total_results" \in tool_call.reply.value.keys
    /\ Len(UnderlyingCitations(tool_call.reply)) = 4
    /\ tool_result.value.total_results = 5
    /\ tool_result.value.answer.len = 420
    /\ Len(tool_result.value.sources) = 3

----------------------------------------------------------------------------
(* Properties of the orchestrator's routing *)

Routed == ~routing_result.raised

DomainCategories == {"nursing", "hr", "pharmacy"}

\* the query went to a domain agent with priority 2
RoutedToDomain ==
    /\ routing_result.value.handled_by \in DomainCategories
    /\ Has(routing_result.value.response, "routing_info")
    /\ routing_result.value.response.routing_info.priority = 2
    /\ routing_result.value.response.routing_info.category
          = routing_result.value.handled_by

\* the query went to the help agent by help detection, the classifier unused
RoutedToHelp ==
    /\ routing_result.value.handled_by = "help"
    /\ Has(routing_result.value.response, "routing_info")
    /\ routing_result.value.response.agent = "help"
    /\ routing_result.value.response.routing_info.category = "help"
    /\ routing_result.value.response.routing_info.priority = 1
    /\ routing_result.value.classifier_calls = 0

----------------------------------------------------------------------------
(* Properties of the transcript, the counter and the registry *)

\* every iteration made so far was a tool-call iteration that ran to its
\* end: each has left an entry in the trace
EarlierIterationsCalledTools ==
    \A k \in 1..model_calls :
        \E i \in 1..Len(tool_call_history) : tool_call_history[i].iteration = k

\* the names of the function calls of a sequence of parts, in order
RequestedNames(parts) ==
    [i \in 1..Len(CallsOf(parts)) |-> CallsOf(parts)[i].function]

\* the query first, then pairs of a model turn with function calls and a
\* response turn with one result per call, in the order of the calls
TranscriptShape ==
    /\ Len(contents) >= 1
    /\ Len(contents) % 2 = 1
    /\ contents[1] = [kind |-> "query", text |-> query]
    /\ \A i \in 2..Len(contents) :
          IF i % 2 = 0
          THEN /\ contents[i].kind = "model"
               /\ NumCalls(contents[i].parts) >= 1
          ELSE /\ contents[i].kind = "function_responses"
               /\ [j \in 1..Len(contents[i].parts) |-> contents[i].parts[j].name]
                     = RequestedNames(contents[i - 1].parts)

\* a step leaves the transcript alone, seeds it, or appends two turns
TranscriptStep ==
    \/ contents' = contents
    \/ pc = "idle" /\ contents' = << [kind |-> "query", text |-> query'] >>
    \/ /\ pc = "executing_tools"
       /\ Len(contents') = Len(contents) + 2
       /\ IsPrefix(contents, contents')

\* C21: within one run the transcript starts as exactly the user's query
\* and is append-only: each tool-call iteration appends exactly two turns,
\* the model's tool-call turn and one response turn with one result per
\* executed call, nothing is removed or rewritten, and before the k-th
\* model invocation the transcript holds 1 + 2*(k-1) turns when all earlier
\* iterations were tool-call iterations.
C21_TranscriptAppendOnly ==
    /\ [](pc # "idle" => TranscriptShape)
    /\ []((pc = "awaiting_model" /\ EarlierIterationsCalledTools) =>
             Len(contents) = 1 + 2 * model_calls)
    /\ [][TranscriptStep]_vars

C21_Witness ==
    /\ pc = "awaiting_model"
    /\ model_calls = 1
    /\ Len(contents) = 3
    /\ NumCalls(contents[2].parts) = 2
    /\ Len(contents[3].parts) = 2

\* the trace of a call, without the iteration and the preview
TracedBy(c) ==
    [i \in 1..Len(c.tool_call_history) |->
        [function |-> c.tool_call_history[i].function,
         arguments |-> c.tool_call_history[i].arguments]]

\* the results of the response turns of a transcript, in order
RECURSIVE ResultsIn(_)
ResultsIn(transcript) ==
    IF transcript = << >> THEN << >>
    ELSE IF Head(transcript).kind = "function_responses"
         THEN Head(transcript).parts \o ResultsIn(Tail(transcript))
         ELSE ResultsIn(Tail(transcript))

\* the calls of a call's batches are in its trace and its response turns
\* in the order the model requested them, each with its own result
OrderedAsRequested(c) ==
    LET requested ==
            RequestedIn(c.contents)
            \o (IF c.pc = "executing_tools"
                THEN CallsOf(SubSeq(c.response.value.parts, 1, c.part_index - 1))
                ELSE << >>)
        results ==
            ResultsIn(c.contents)
            \o (IF c.pc = "executing_tools" THEN c.function_response_parts ELSE << >>)
    IN  /\ TracedBy(c) = requested
        /\ Len(results) = Len(requested)
        /\ \A i \in 1..Len(results) :
              /\ results[i].name = requested[i].function
              /\ c.tool_call_history[i].result_summary
                    = ResultSummary(results[i].response)

\* two responses agree on a field: both lack it or both hold the same value
SameField(r1, r2, field) ==
    /\ Has(r1, field) <=> Has(r2, field)
    /\ (Has(r1, field) /\ Has(r2, field)) => r1[field] = r2[field]

CounterStep ==
    \/ /\ iteration' = iteration
       /\ model_calls' = model_calls
    \/ /\ pc = "awaiting_model"
       /\ iteration' = iteration + 1
       /\ model_calls' = model_calls + 1

\* C23: the iteration counter starts at 0, grows by exactly 1 per model
\* invocation of the loop, never decreases and stays within
\* 0..max_iterations; the iterations value of a done or exhausted response
\* is the number of model invocations the loop made, the summarization call
\* not counted.
C23_IterationCounter ==
    /\ [](pc = "idle" => iteration = 0)
    /\ [](0 <= iteration /\ iteration <= max_iterations)
    /\ [](iteration = model_calls)
    /\ [][CounterStep]_vars
    /\ []((Returned /\ Has(result, "iterations")) =>
             result.iterations = model_calls)

C23_Witness ==
    /\ Returned
    /\ DoneShape(result)
    /\ summary_calls = 1
    /\ model_calls = 2
    /\ result.iterations = 2
    /\ max_iterations = 2

\* the executor sent the call of a trace entry to a handler
Dispatched(entry) ==
    entry.result_summary.preview_of # UnknownFunctionResult(entry.function)

\* C24: the tool registry holds exactly four declarations with pairwise
\* distinct names (get_patient_details, search_nursing_procedures,
\* search_pharmacy_info, search_hr_policies), no research() run and no tool
\* execution changes it, and the executor hands a call to a handler exactly
\* when its name is declared.
C24_RegistryStaticAndComplete ==
    /\ Len(registry.tools) = 4
    /\ \A i, j \in 1..Len(registry.tools) :
          i # j => registry.tools[i] # registry.tools[j]
    /\ { registry.tools[i] : i \in 1..Len(registry.tools) }
          = { "get_patient_details", "search_nursing_procedures",
              "search_pharmacy_info", "search_hr_policies" }
    /\ registry = Registry
    /\ \A i \in 1..Len(tool_call_history) :
          Dispatched(tool_call_history[i])
             <=> \E k \in 1..Len(registry.tools) :
                    registry.tools[k] = tool_call_history[i].function

C24_Witness ==
    /\ Returned
    /\ Len(tool_call_history) = 2
    /\ tool_call_history[1].function = "search_hr_policies"
    /\ Dispatched(tool_call_history[1])
    /\ tool_call_history[2].function = "bogus_tool"
    /\ ~Dispatched(tool_call_history[2])
    /\ registry = Registry

\* the last model turn holds at least one function call
LastTurnHasCalls ==
    /\ model_calls > 0
    /\ ~response.raised
    /\ response.value.candidates > 0
    /\ HasFunctionCalls(response.value.parts)

\* C25: tool calls and a final answer exclude each other in a model turn:
\* a turn with at least one tool-call request never ends the run as done,
\* text parts or not; its calls are executed, its text is not returned as
\* the answer, and the loop waits for the model again or ends exhausted at
\* the bound.
C25_CallsExcludeAnswer ==
    /\ LastTurnHasCalls =>
          /\ pc \in {"executing_tools", "awaiting_model", "returned"}
          /\ Returned =>
                /\ IncompleteShape(result)
                /\ iteration = max_iterations
          /\ pc # "executing_tools" =>
                Cardinality({ i \in 1..Len(tool_call_history) :
                                 tool_call_history[i].iteration = iteration })
                   = NumCalls(response.value.parts)
    /\ (pc = "summarizing" \/ (Returned /\ DoneShape(result))) =>
          /\ ~LastTurnHasCalls
          /\ HasText(response.value.parts[1])
    /\ (Returned /\ DoneShape(result)) =>
          result.answer = response.value.parts[1].text

C25_Witness ==
    /\ pc = "awaiting_model"
    /\ LastTurnHasCalls
    /\ HasText(response.value.parts[1])
    /\ Len(tool_call_history) = 1
    /\ Len(contents) = 3
    /\ iteration < max_iterations

\* C26 (as claimed): a response carries the warning "max_iterations_reached"
\* only if the bound was reached: with the warning present, iterations
\* equals max_iterations and max_iterations model invocations were made.
C26_WarningOnlyAtBound ==
    (Returned /\ Has(result, "warning")) =>
        /\ result.warning = "max_iterations_reached"
        /\ result.iterations = max_iterations
        /\ model_calls = max_iterations

\* a step that invokes the summarizer starts at the final answer, ends with
\* the response returned and leaves the counter, the transcript and the
\* trace alone; a step that invokes the model comes before any summary
SummarizerStep ==
    /\ summary_calls' # summary_calls =>
          /\ summary_calls' = summary_calls + 1
          /\ pc = "summarizing"
          /\ pc' = "returned"
          /\ iteration' = iteration
          /\ model_calls' = model_calls
          /\ contents' = contents
          /\ tool_call_history' = tool_call_history
    /\ model_calls' # model_calls => summary_calls = 0

\* C27: the summarizer is invoked exactly once in a run that ends done,
\* after the last model invocation of the loop and before the response is
\* returned, and never in a run that ends exhausted or with a failure; it
\* changes neither the iteration counter nor the transcript nor the trace.
C27_SummarizerOncePerDoneRun ==
    /\ [](summary_calls <= 1)
    /\ [](summary_calls = 1 => (Returned /\ DoneShape(result)))
    /\ []((Returned /\ DoneShape(result)) => summary_calls = 1)
    /\ []((Returned /\ (IncompleteShape(result) \/ FailureShape(result))) =>
             summary_calls = 0)
    /\ [][SummarizerStep]_vars

C27_Witness ==
    /\ Returned
    /\ DoneShape(result)
    /\ summary_calls = 1
    /\ summary_response.raised
    /\ model_calls = 2
    /\ Len(tool_call_history) >= 1

----------------------------------------------------------------------------
(* Properties of the API's conversation store *)

\* a step that served POST /query
ServedQuery == api_call'.endpoint = "query"

\* the turns are user, assistant, user, ... , assistant
RolesAlternate(turns) ==
    /\ Len(turns) % 2 = 0
    /\ \A i \in 1..Len(turns) :
          turns[i].role = (IF i % 2 = 1 THEN "user" ELSE "assistant")

\* the turns are the last n exchanges of the stored ones, oldest first
FromMostRecent(turns, stored, n) ==
    /\ n <= Len(stored)
    /\ Len(turns) = 2 * n
    /\ \A k \in 1..n :
          /\ turns[2 * k - 1].content = stored[Len(stored) - n + k].query
          /\ turns[2 * k].content = stored[Len(stored) - n + k].answer

\* C28 (as claimed): the context POST /query passes on is derived from the
\* stored conversation in chronological order: for every
\* MAX_CONVERSATION_TURNS >= 0 it holds at most 2 * MAX_CONVERSATION_TURNS
\* turns, built from the most recent stored exchanges, every turn has role
\* user or assistant, roles alternate starting with user, and a
\* conversation without a stored exchange passes no history.
C28_ContextFromRecentHistory ==
    [][ServedQuery =>
          LET stored == GetList(conversation_history, api_call'.conversation_id)
              history == api_call'.history
          IN  /\ stored = << >> => history.is_none
              /\ stored # << >> =>
                    /\ ~history.is_none
                    /\ Len(history.turns) <= 2 * max_conversation_turns
                    /\ RolesAlternate(history.turns)
                    /\ FromMostRecent(history.turns, stored,
                                      Len(history.turns) \div 2)]_vars

\* the store after the step holds the conversations of keys as they were
KeptAsWere(keys) ==
    \A k \in keys :
        /\ HasKey(conversation_history', k)
        /\ conversation_history'[k] = conversation_history[k]

\* what a step of the API does to the store, by the request it served
StoreStep ==
    LET served == api_call'
        before == DOMAIN conversation_history
    IN  /\ (served.endpoint = "query" /\ served.status = 500) =>
              conversation_history' = conversation_history
        /\ (served.endpoint = "query" /\ served.status = 200) =>
              LET id == served.conversation_id
                  old == GetList(conversation_history, id)
              IN  /\ DOMAIN conversation_history' = before \cup {id}
                  /\ KeptAsWere(before \ {id})
                  /\ Len(conversation_history'[id]) = Len(old) + 1
                  /\ SubSeq(conversation_history'[id], 1, Len(old)) = old
                  /\ conversation_history'[id][Len(old) + 1].query = served.query
        /\ served.endpoint = "delete" =>
              IF served.conversation_id \in before
              THEN /\ served.status = 200
                   /\ DOMAIN conversation_history' = before \ {served.conversation_id}
                   /\ KeptAsWere(before \ {served.conversation_id})
              ELSE /\ served.status = 404
                   /\ conversation_history' = conversation_history
        /\ served.endpoint \in {"research", "get"} =>
              conversation_history' = conversation_history

----------------------------------------------------------------------------
(* Properties of ConversationManager *)

\* s is the last Len(s) items of t, in order
IsSuffix(s, t) ==
    /\ Len(s) <= Len(t)
    /\ s = SubSeq(t, Len(t) - Len(s) + 1, Len(t))

\* every conversation but the named one is after the step as it was
OthersKept(conversation_id) ==
    \A k \in DOMAIN conversations \ {conversation_id} :
        /\ HasKey(conversations', k)
        /\ conversations'[k] = conversations[k]

\* what a call does to the conversations and what it returns
ManagerStep ==
    LET call == manager_call'
    IN  /\ call.op = "add_message" =>
              LET added == Append(GetList(conversations, call.conversation_id),
                                  call.message)
              IN  /\ DOMAIN conversations'
                        = DOMAIN conversations \cup {call.conversation_id}
                  /\ OthersKept(call.conversation_id)
                  /\ Len(conversations'[call.conversation_id])
                        = Min(Len(added), max_history)
                  /\ IsSuffix(conversations'[call.conversation_id], added)
        /\ call.op = "clear_conversation" =>
              /\ DOMAIN conversations'
                    = DOMAIN conversations \ {call.conversation_id}
              /\ OthersKept(call.conversation_id)
        /\ call.op = "get_context_for_query" =>
              /\ conversations' = conversations
              /\ Len(call.returned) <= 2 * call.max_turns
              /\ IsSuffix(call.returned,
                          GetList(conversations, call.conversation_id))

\* C30 (as claimed): for ConversationManager with max_history >= 1, after
\* any sequence of add_message and clear_conversation calls every stored
\* conversation has at most max_history messages, exactly the most recently
\* added ones in insertion order; clear_conversation removes only the named
\* conversation and is a no-op for an unknown id; get_context_for_query
\* returns at most 2 * max_turns of the latest messages without changing
\* the store.
C30_BoundedConversationHistory ==
    /\ [](\A k \in DOMAIN conversations : Len(conversations[k]) <= max_history)
    /\ [][ManagerStep]_vars

====
